---------------------------- MODULE Spec2Model ----------------------------
(***************************************************************************)
(* A model of the SkSL front-end core of peilinok/skia.                    *)
(*                                                                         *)
(* Part I: the Rehydrator (src/src/sksl/SkSLASTNode.cpp, lines 311-855),   *)
(* the binary IR decoder.  A session is one Rehydrator object decoding one *)
(* byte buffer.  The recursive-descent decoder is modelled as a stack      *)
(* machine: a frame per active decode call, and one step per entry into or *)
(* return from a decode call.  SkASSERT and SkDEBUGFAILF exist only in     *)
(* SK_DEBUG builds (the source itself declares fEnd and the local          *)
(* `command` under SkDEBUGCODE), so the build is part of the state: a      *)
(* failed assertion ends a debug session ("aborted"), while in a release   *)
(* build the code after the assertion runs.  Executing undefined behaviour *)
(* (a null or out-of-bounds dereference) ends the session in "undefined":  *)
(* from there the build may do anything.                                   *)
(***************************************************************************)
EXTENDS Integers, Sequences, FiniteSets, TLC

(***************************************************************************)
(* Bounds of the explored input family.                                    *)
(***************************************************************************)
MaxDepth == 2      \* nesting depth of blocks / symbol tables in the streams
MaxCount == 2      \* enumerators, parameters, elements per generated stream
MaxMut == 2        \* a corrupted byte takes a value in 0..MaxMut or UnknownTag

Sessions == {1, 2}

Null == <<0, 0>>   \* the null pointer (symbols, tables, IR nodes)

(***************************************************************************)
(* Rehydrator::Command.  The header that numbers the tags is not part of   *)
(* the sources at hand; the tags are numbered in the order below.          *)
(***************************************************************************)
Commands ==
  << "kArrayType", "kBinary", "kBlock", "kBoolLiteral", "kBreak",
     "kBuiltinLayout", "kConstructorArray", "kConstructorCompound",
     "kConstructorCompoundCast", "kConstructorDiagonalMatrix",
     "kConstructorMatrixResize", "kConstructorScalarCast",
     "kConstructorSplat", "kConstructorStruct", "kContinue",
     "kDefaultLayout", "kDefaultModifiers", "kDiscard", "kDo", "kElements",
     "kElementsComplete", "kEnum", "kEnumType", "kExpressionStatement",
     "kField", "kFieldAccess", "kFloatLiteral", "kFor", "kFunctionCall",
     "kFunctionDeclaration", "kFunctionDefinition", "kIf", "kIndex",
     "kInlineMarker", "kInterfaceBlock", "kIntLiteral", "kLayout",
     "kModifiers8Bit", "kModifiers", "kPostfix", "kPrefix", "kReturn",
     "kSetting", "kStructDefinition", "kStructType", "kSwitch", "kSwizzle",
     "kSymbolAlias", "kSymbolRef", "kSymbolTable", "kSystemType", "kTernary",
     "kUnresolvedFunction", "kVariable", "kVarDeclaration",
     "kVarDeclarations", "kVariableReference", "kVoid" >>

\* the command a tag byte stands for; "?" for a byte that is no command
CommandOf(b) == IF b < Len(Commands) THEN Commands[b + 1] ELSE "?"

\* the tag byte of a command
TagOf(c) == (CHOOSE i \in 1..Len(Commands) : Commands[i] = c) - 1

\* a byte value that is no command
UnknownTag == Len(Commands)


VARIABLES
  skDebug,       \* TRUE: SK_DEBUG build (assertions compiled in)
  status,        \* per session: "idle", "running", "done", "aborted", "undefined"
  buf,           \* per session: the byte buffer [fStart, fEnd)
  fIP,           \* per session: the cursor, as an offset from fStart
  fSymbolTable,  \* per session: the active symbol table (an identity or Null)
  fSymbols,      \* per session: the id-to-symbol registry
  stack,         \* per session: the frames of the active decode calls
  syms,          \* per session: the symbols the session allocated
  tabs,          \* per session: the symbol tables (the first is the base table)
  plan,          \* per session: the public calls the client still makes
  out,           \* per session: what the public calls returned, in order
  calls,         \* per session: the decode calls that returned, in order
  fErrors,       \* per session: the errors reported to context.fErrors
  threads,       \* per thread of the test: where it is, and its effect
  compilerMutex, \* the thread that holds the compiler's mutex, or 0
  compiler,      \* the mutable state of the one shared compiler
  fActiveBlitCommandEncoder,      \* GrMtlCommandBuffer: an encoder, or nil
  fActiveRenderCommandEncoder,    \* GrMtlCommandBuffer: an encoder, or nil
  fPreviousRenderPassDescriptor,  \* GrMtlCommandBuffer: a descriptor, or nil
  fHasWork,      \* GrMtlCommandBuffer: something was encoded
  encoders,      \* the encoders fCmdBuffer made, and whether each was ended
  returned       \* the last call on the command buffer and what it returned

\* the threads of SkRuntimeEffectThreaded and the compiler they share
mtlVars == << fActiveBlitCommandEncoder, fActiveRenderCommandEncoder,
              fPreviousRenderPassDescriptor, fHasWork, encoders, returned >>

rtVars == <<threads, compilerMutex, compiler, mtlVars>>

vars == << skDebug, status, buf, fIP, fSymbolTable, fSymbols, stack, syms,
           tabs, plan, out, calls, fErrors, threads, compilerMutex, compiler,
           fActiveBlitCommandEncoder, fActiveRenderCommandEncoder,
           fPreviousRenderPassDescriptor, fHasWork, encoders, returned >>


(***************************************************************************)
(* The state of one session as a record m: dbg (the build), self (the      *)
(* session), status, buf, ip (fIP), cur (fSymbolTable), reg (fSymbols),    *)
(* syms, tabs, stack, ret (what returned to the client in this step) and   *)
(* log (the calls that returned).  The decode operators below map such a   *)
(* record to the record after the code has run; the actions store it back. *)
(*                                                                         *)
(* fSymbols is a vector indexed by id; it is kept as its size and the      *)
(* slots that were assigned, every other slot below size holding nullptr.  *)
(***************************************************************************)
\* a session whose id-to-symbol registry is one static vector that every
\* session reads
SessionOverSharedRegistry(s) ==
  [ dbg |-> skDebug, self |-> s, status |-> status[s], buf |-> buf[s],
    ip |-> fIP[s], cur |-> fSymbolTable[s], reg |-> fSymbols[1],
    syms |-> syms[s], tabs |-> tabs[s], stack |-> stack[s], ret |-> <<>>,
    log |-> calls[s] ]

Session(s) ==
  [ dbg |-> skDebug, self |-> s, status |-> status[s], buf |-> buf[s],
    ip |-> fIP[s], cur |-> fSymbolTable[s], reg |-> fSymbols[s],
    syms |-> syms[s], tabs |-> tabs[s], stack |-> stack[s], ret |-> <<>>,
    log |-> calls[s] ]

\* SkASSERT(cond) failed: fatal in a debug build; compiled out otherwise
AssertFailed(m) == IF m.dbg THEN [m EXCEPT !.status = "aborted"] ELSE m

\* undefined behaviour was executed
Undefined(m) == [m EXCEPT !.status = "undefined"]

\* a read at or past fEnd: SkASSERT(fIP < fEnd) in a debug build, an
\* out-of-bounds read otherwise
PastEnd(m) == IF m.dbg THEN [m EXCEPT !.status = "aborted"] ELSE Undefined(m)

Running(m) == m.status = "running"

readU8(m) ==
  IF ~Running(m) THEN [m |-> m, v |-> 0]
  ELSE IF m.ip < Len(m.buf)
       THEN [m |-> [m EXCEPT !.ip = @ + 1], v |-> m.buf[m.ip + 1]]
       ELSE [m |-> PastEnd(m), v |-> 0]

readS8(m) ==
  LET r == readU8(m) IN [m |-> r.m, v |-> IF r.v >= 128 THEN r.v - 256 ELSE r.v]

readU16(m) ==
  LET b1 == readU8(m)
      b2 == readU8(b1.m)
  IN  [m |-> b2.m, v |-> b1.v + 256 * b2.v]

readS16(m) ==
  LET r == readU16(m)
  IN  [m |-> r.m, v |-> IF r.v >= 32768 THEN r.v - 65536 ELSE r.v]

\* the four bytes as a two's complement value, least significant byte first
readS32(m) ==
  LET lo == readU16(m)
      b3 == readU8(lo.m)
      b4 == readS8(b3.m)
  IN  [m |-> b4.m, v |-> lo.v + 65536 * b3.v + 16777216 * b4.v]

\* readU32() where the code stores the result in an int
readU32(m) == readS32(m)

\* the characters at offset o of a buffer: a length byte, then that many
\* characters; <<>> where they do not all lie inside the buffer
StringAt(bytes, o) ==
  IF o < Len(bytes) /\ o + 1 + bytes[o + 1] <= Len(bytes)
  THEN <<SubSeq(bytes, o + 2, o + 1 + bytes[o + 1])>>
  ELSE <<>>

\* a string is a span of the buffer: a 16-bit offset from fStart to its
\* length byte, which the characters follow
readString(m) ==
  LET o == readU16(m) IN
  IF ~Running(o.m) THEN [m |-> o.m, v |-> <<>>]
  ELSE IF StringAt(m.buf, o.v) = <<>> THEN [m |-> Undefined(o.m), v |-> <<>>]
  ELSE [m |-> o.m, v |-> StringAt(m.buf, o.v)[1]]

(***************************************************************************)
(* Layout and Modifiers as the default constructors make them.             *)
(***************************************************************************)
DefaultLayout ==
  [ flags |-> 0, location |-> -1, offset |-> -1, binding |-> -1, index |-> -1,
    set |-> -1, builtin |-> -1, inputAttachmentIndex |-> -1, primitive |-> -1,
    maxVertices |-> -1, invocations |-> -1, when |-> <<>>, ctype |-> 0 ]

DefaultModifiers == [ layout |-> DefaultLayout, flags |-> 0 ]

(***************************************************************************)
(* Symbols and symbol tables.                                              *)
(*                                                                         *)
(* A symbol or a table is named by its identity <<owner, n>>: the n-th     *)
(* object allocated by session `owner`; owner 0 holds the builtin type     *)
(* singletons, which every context shares and nothing mutates.             *)
(*                                                                         *)
(* A symbol is a record: kind, name, tk (the type kind of a Type), type    *)
(* (component type, variable type, return type, alias target or field      *)
(* owner), n (array count, field index or storage), list (struct fields,   *)
(* parameters or overloads), mods, and def (a function has a definition).  *)
(***************************************************************************)
NameInt == <<105, 110, 116>>                   \* "int"
NameFloat2 == <<102, 108, 111, 97, 116, 50>>   \* "float2"
NameHalf4 == <<104, 97, 108, 102, 52>>         \* "half4"

BuiltinType(name) ==
  [ kind |-> "Type", name |-> name, tk |-> "builtin", type |-> Null, n |-> 0,
    list |-> <<>>, mods |-> DefaultModifiers, def |-> FALSE ]

BuiltinTypes == << BuiltinType(NameInt), BuiltinType(NameFloat2),
                   BuiltinType(NameHalf4) >>

\* the symbol table a Rehydrator is constructed over: a builtin root table
\* that names the builtin types
BaseTable ==
  [ parent |-> Null, builtin |-> TRUE, owned |-> <<>>,
    refs |-> [i \in 1..Len(BuiltinTypes) |-> <<0, i>>], nodes |-> <<>> ]

Sym(m, id) == IF id[1] = 0 THEN BuiltinTypes[id[2]] ELSE m.syms[id[2]]

\* SymbolTable::takeOwnershipOfSymbol on the active table: the table owns the
\* new symbol; no name is entered
takeOwnershipOfSymbol(m, rec) ==
  IF ~Running(m) THEN [m |-> m, v |-> Null]
  ELSE IF m.cur = Null THEN [m |-> Undefined(m), v |-> Null]
  ELSE LET id == <<m.self, Len(m.syms) + 1>>
       IN  [ m |-> [m EXCEPT !.syms = Append(@, rec),
                             !.tabs[m.cur[2]].owned = Append(@, id)],
             v |-> id ]

\* SymbolTable::addWithoutOwnership on the active table: the symbol's name
\* now resolves to it
addWithoutOwnership(m, id) ==
  IF ~Running(m) THEN m
  ELSE IF m.cur = Null \/ id = Null THEN Undefined(m)
  ELSE [m EXCEPT !.tabs[m.cur[2]].refs = Append(@, id)]

\* the symbol a table itself holds under a name: the last one entered
LookupIn(m, t, name) ==
  LET hits == {i \in 1..Len(m.tabs[t[2]].refs) :
                  Sym(m, m.tabs[t[2]].refs[i]).name = name}
  IN  IF hits = {} THEN Null
      ELSE m.tabs[t[2]].refs[CHOOSE i \in hits : \A j \in hits : j <= i]

\* SymbolTable::operator[]: the table, then its parent, recursively
RECURSIVE Lookup(_, _, _)
Lookup(m, t, name) ==
  IF t = Null THEN Null
  ELSE LET here == LookupIn(m, t, name)
       IN  IF here # Null THEN here ELSE Lookup(m, m.tabs[t[2]].parent, name)

(***************************************************************************)
(* The symbol registry.                                                    *)
(***************************************************************************)
EmptyRegistry == [size |-> 0, at |-> <<>>]

\* fSymbols[id], for id < fSymbols.size()
RegAt(reg, id) == IF id \in DOMAIN reg.at THEN reg.at[id] ELSE Null

\* Rehydrator::addSymbol: grow the vector to hold slot id, then assign it
addSymbol(m, id, sym) ==
  IF ~Running(m) THEN m
  ELSE [m EXCEPT !.reg = [ size |-> IF id >= @.size THEN id + 1 ELSE @.size,
                           at |-> (id :> sym) @@ @.at ]]

\* a lookup that hands out a copy of the registered symbol
LookupCopy(m, id) ==
  IF Running(m) /\ m.reg.size > id /\ RegAt(m.reg, id) # Null
  THEN takeOwnershipOfSymbol(m, Sym(m, RegAt(m.reg, id)))
  ELSE [m |-> m, v |-> Null]

\* SkASSERT(fSymbols.size() > id); return fSymbols[id];
\* without the assertion an id at or past size() reads outside the vector
LookupId(m, id) ==
  IF ~Running(m) THEN [m |-> m, v |-> Null]
  ELSE IF m.reg.size > id THEN [m |-> m, v |-> RegAt(m.reg, id)]
  ELSE IF m.dbg THEN [m |-> AssertFailed(m), v |-> Null]
  ELSE [m |-> Undefined(m), v |-> Null]


(***************************************************************************)
(* Decode calls as frames.                                                 *)
(*                                                                         *)
(* A frame is one active call of a decode function fn.  cmd is the case of *)
(* its switch that was taken ("" until the tag is read), pc the next item  *)
(* of that case's script, vals the values decoded so far, and lp, rem, acc *)
(* the bounds, remaining iterations and collected values of the loop the   *)
(* call is in.  inherit is the argument of symbolTable(); old and tab are  *)
(* the locals oldTable / fOldSymbols and result of symbolTable() and       *)
(* AutoRehydratorSymbolTable.  A call that returns early has done set and  *)
(* returns res.  at and was are the cursor and the active table at the     *)
(* call.                                                                   *)
(*                                                                         *)
(* A script lists, in source order, what a case reads and which decode     *)
(* functions it calls: "u8" "s8" "u16" "s16" "s32" "u32" "str" are reads,  *)
(* the name of a decode function is a call of it, "loopK" runs the         *)
(* next K items as many times as the value decoded last says, and the      *)
(* remaining items are the assertions and table switches of the source.    *)
(***************************************************************************)
NullNode == [node |-> "null", args |-> <<>>]

Dispatching ==
  {"layout", "modifiers", "symbol", "element", "statement", "expression"}

CallItems == Dispatching \cup
             { "type", "symbolRef", "expressionArray", "symbolTable",
               "symbolTableNoInherit" }

\* the frame of a call made in m; item names the function, and for
\* symbolTable() its argument
NewFrame(m, item) ==
  [ fn |-> IF item = "symbolTableNoInherit" THEN "symbolTable" ELSE item,
    inherit |-> item # "symbolTableNoInherit",
    cmd |-> IF item \in Dispatching THEN "" ELSE "body",
    pc |-> 1, vals |-> <<>>, lp |-> <<0, 0>>, rem |-> 0, acc |-> <<>>,
    old |-> Null, tab |-> Null, done |-> FALSE, res |-> Null,
    at |-> m.ip, was |-> m.cur ]

LayoutScript(cmd) ==
  CASE cmd = "kBuiltinLayout" -> <<"s16">>
    [] cmd = "kDefaultLayout" -> <<>>
    [] cmd = "kLayout" ->
         << "u32", "s8", "s8", "s8", "s8", "s8", "s16", "s8", "s8", "s8", "s8",
            "str", "s8" >>

LayoutCommands == {"kBuiltinLayout", "kDefaultLayout", "kLayout"}

\* a modifiers() whose 8-bit flags are read as a signed byte
ModifiersScriptSigned(cmd) ==
  CASE cmd = "kDefaultModifiers" -> <<>>
    [] cmd = "kModifiers8Bit" -> <<"layout", "s8">>
    [] cmd = "kModifiers" -> <<"layout", "s32">>

ModifiersScript(cmd) ==
  CASE cmd = "kDefaultModifiers" -> <<>>
    [] cmd = "kModifiers8Bit" -> <<"layout", "u8">>
    [] cmd = "kModifiers" -> <<"layout", "s32">>

ModifiersCommands == {"kDefaultModifiers", "kModifiers8Bit", "kModifiers"}

SymbolScript(cmd) ==
  CASE cmd = "kArrayType" -> <<"u16", "type", "s8">>
    [] cmd = "kEnumType" -> <<"u16", "str">>
    [] cmd = "kFunctionDeclaration" ->
         <<"u16", "modifiers", "str", "u8", "loop1", "symbolRef", "type">>
    [] cmd = "kField" -> <<"symbolRef", "u8">>
    [] cmd = "kStructType" ->
         <<"u16", "str", "u8", "loop3", "modifiers", "str", "type">>
    [] cmd = "kSymbolRef" -> <<"u16">>
    [] cmd = "kSymbolAlias" -> <<"u16", "str", "symbol">>
    [] cmd = "kSystemType" -> <<"u16", "str">>
    [] cmd = "kUnresolvedFunction" ->
         <<"u16", "u8", "loop2", "symbol", "assertFunction">>
    [] cmd = "kVariable" -> <<"u16", "modifiers", "str", "type", "u8">>

SymbolCommands ==
  { "kArrayType", "kEnumType", "kFunctionDeclaration", "kField",
    "kStructType", "kSymbolRef", "kSymbolAlias", "kSystemType",
    "kUnresolvedFunction", "kVariable" }

ElementScript(cmd) ==
  CASE cmd = "kEnum" ->
         <<"str", "symbolTableNoInherit", "ownedSymbols", "loop1", "enumValue">>
    [] cmd = "kFunctionDefinition" ->
         <<"symbolRef", "statement", "u8", "loop1", "symbolRef">>
    [] cmd = "kInterfaceBlock" ->
         <<"symbol", "assertVariable", "str", "str", "s8">>
    [] cmd = "kVarDeclarations" -> <<"statement">>
    [] cmd = "kStructDefinition" -> <<"symbol", "assertIsType">>
    [] cmd = "kElementsComplete" -> <<>>

ElementCommands ==
  { "kEnum", "kFunctionDefinition", "kInterfaceBlock", "kVarDeclarations",
    "kStructDefinition", "kElementsComplete" }

StatementScript(cmd) ==
  CASE cmd = "kBlock" ->
         <<"save", "symbolTable", "enter", "u8", "loop1", "statement", "u8">>
    [] cmd \in {"kBreak", "kContinue", "kDiscard", "kVoid"} -> <<>>
    [] cmd = "kDo" -> <<"statement", "expression">>
    [] cmd = "kExpressionStatement" -> <<"expression">>
    [] cmd = "kFor" ->
         <<"statement", "expression", "expression", "statement", "symbolTable">>
    [] cmd = "kIf" -> <<"u8", "expression", "statement", "statement">>
    [] cmd = "kInlineMarker" -> <<"symbolRef">>
    [] cmd = "kReturn" -> <<"expression">>
    [] cmd = "kSwitch" ->
         << "u8", "save", "symbolTable", "enter", "expression", "u8", "loop2",
            "expression", "statement" >>
    [] cmd = "kVarDeclaration" -> <<"symbolRef", "type", "s8", "expression">>

StatementCommands ==
  { "kBlock", "kBreak", "kContinue", "kDiscard", "kDo",
    "kExpressionStatement", "kFor", "kIf", "kInlineMarker", "kReturn",
    "kSwitch", "kVarDeclaration", "kVoid" }

\* the constructors that take exactly one argument
SingleArgumentConstructors ==
  { "kConstructorDiagonalMatrix", "kConstructorMatrixResize",
    "kConstructorScalarCast", "kConstructorSplat", "kConstructorCompoundCast" }

ExpressionScript(cmd) ==
  CASE cmd = "kBinary" -> <<"expression", "u8", "expression">>
    [] cmd = "kBoolLiteral" -> <<"u8">>
    [] cmd \in {"kConstructorArray", "kConstructorCompound",
                "kConstructorStruct"} -> <<"type", "expressionArray">>
    [] cmd \in SingleArgumentConstructors ->
         <<"type", "expressionArray", "assertOne">>
    [] cmd = "kFieldAccess" -> <<"expression", "u8", "u8">>
    [] cmd \in {"kFloatLiteral", "kIntLiteral"} -> <<"type", "s32">>
    [] cmd = "kFunctionCall" -> <<"type", "symbolRef", "expressionArray">>
    [] cmd = "kIndex" -> <<"expression", "expression">>
    [] cmd \in {"kPostfix", "kPrefix"} -> <<"u8", "expression">>
    [] cmd = "kSetting" -> <<"str">>
    [] cmd = "kSwizzle" -> <<"expression", "u8", "loop1", "u8">>
    [] cmd = "kTernary" -> <<"expression", "expression", "expression">>
    [] cmd = "kVariableReference" -> <<"symbolRef", "u8">>
    [] cmd = "kVoid" -> <<>>

ExpressionCommands ==
  { "kBinary", "kBoolLiteral", "kConstructorArray", "kConstructorCompound",
    "kConstructorStruct", "kFieldAccess", "kFloatLiteral", "kIntLiteral",
    "kFunctionCall", "kIndex", "kPostfix", "kPrefix", "kSetting", "kSwizzle",
    "kTernary", "kVariableReference", "kVoid" }
  \cup SingleArgumentConstructors

\* the cases of the switch of a dispatching decode function
CommandsOf(fn) ==
  CASE fn = "layout" -> LayoutCommands
    [] fn = "modifiers" -> ModifiersCommands
    [] fn = "symbol" -> SymbolCommands
    [] fn = "element" -> ElementCommands
    [] fn = "statement" -> StatementCommands
    [] fn = "expression" -> ExpressionCommands

\* what the default: case of a switch returns where assertions are compiled
\* out
DefaultResult(fn) ==
  CASE fn = "layout" -> DefaultLayout
    [] fn = "modifiers" -> DefaultModifiers
    [] fn = "symbol" -> Null
    [] OTHER -> NullNode

\* the script a frame is running
ScriptOf(f) ==
  CASE f.cmd = "" -> <<"tag">>
    [] f.fn = "layout" -> LayoutScript(f.cmd)
    [] f.fn = "modifiers" -> ModifiersScript(f.cmd)
    [] f.fn = "symbol" -> SymbolScript(f.cmd)
    [] f.fn = "element" -> ElementScript(f.cmd)
    [] f.fn = "statement" -> StatementScript(f.cmd)
    [] f.fn = "expression" -> ExpressionScript(f.cmd)
    [] f.fn = "type" -> <<"symbol", "assertType">>
    [] f.fn = "symbolRef" -> <<"u16">>
    [] f.fn = "expressionArray" -> <<"u8", "loop1", "expression">>
    [] f.fn = "symbolTable" ->
         << "tableTag", "u16", "newTable", "loop1", "symbol", "u16", "loop1",
            "tableRef" >>
    [] f.fn = "elements" -> <<"elementsCommand", "element", "more">>


(***************************************************************************)
(* What the cases construct.                                               *)
(***************************************************************************)
kUnsizedArray == -1

\* Layout(flags, location, ...) over the values in the order they were read
LayoutBuild(m, f) ==
  LET a == f.vals IN
  CASE f.cmd = "kBuiltinLayout" ->
         [m |-> m, v |-> [DefaultLayout EXCEPT !.builtin = a[1]]]
    [] f.cmd = "kDefaultLayout" -> [m |-> m, v |-> DefaultLayout]
    [] f.cmd = "kLayout" ->
         [ m |-> m,
           v |-> [ flags |-> a[1], location |-> a[2], offset |-> a[3],
                   binding |-> a[4], index |-> a[5], set |-> a[6],
                   builtin |-> a[7], inputAttachmentIndex |-> a[8],
                   primitive |-> a[9], maxVertices |-> a[10],
                   invocations |-> a[11], when |-> a[12], ctype |-> a[13] ] ]

\* Modifiers() or Modifiers(l, flags)
ModifiersBuild(m, f) ==
  IF f.cmd = "kDefaultModifiers" THEN [m |-> m, v |-> DefaultModifiers]
  ELSE [m |-> m, v |-> [layout |-> f.vals[1], flags |-> f.vals[2]]]

MakeSymbol(kind, name, tk, type, n, list, mods) ==
  [ kind |-> kind, name |-> name, tk |-> tk, type |-> type, n |-> n,
    list |-> list, mods |-> mods, def |-> FALSE ]

\* a declaration whose parameters were collected back to front
MakeFunctionDeclarationReversed(modifiers, name, parameters, returnType) ==
  MakeSymbol("FunctionDeclaration", name, "", returnType, 0,
             [i \in 1..Len(parameters) |-> parameters[Len(parameters) + 1 - i]],
             modifiers)

\* std::make_unique<FunctionDeclaration>(-1, modifiers, name, parameters,
\* returnType, true)
MakeFunctionDeclaration(modifiers, name, parameters, returnType) ==
  MakeSymbol("FunctionDeclaration", name, "", returnType, 0, parameters,
             modifiers)

\* to_string(int): the decimal digits, in ASCII
RECURSIVE Digits(_)
Digits(n) == IF n < 10 THEN <<48 + n>> ELSE Digits(n \div 10) \o <<48 + (n % 10)>>

to_string(n) == IF n < 0 THEN <<45>> \o Digits(-n) ELSE Digits(n)

\* the name of an array type: the component's name, then "[]" or "[count]"
ArrayName(componentName, count) ==
  componentName \o (IF count = kUnsizedArray THEN <<91, 93>>
                    ELSE <<91>> \o to_string(count) \o <<93>>)

\* a case that forgets this->addSymbol(id, result)
RegisterNothing(m, id, rec) == takeOwnershipOfSymbol(m, rec)

\* fSymbolTable->takeOwnershipOfSymbol(...); this->addSymbol(id, result);
Register(m, id, rec) ==
  LET t == takeOwnershipOfSymbol(m, rec)
  IN  [m |-> addSymbol(t.m, id, t.v), v |-> t.v]

\* the flat list a loop collected, in groups of k
Groups(list, k) ==
  [i \in 1..(Len(list) \div k) |-> SubSeq(list, (i - 1) * k + 1, i * k)]

\* the case bodies of Rehydrator::symbol(), after their reads and calls
SymbolBuild(m, f) ==
  LET a == f.vals IN
  CASE f.cmd = "kArrayType" ->
         IF a[2] = Null THEN [m |-> Undefined(m), v |-> Null]
         ELSE Register(m, a[1],
                MakeSymbol("Type", ArrayName(Sym(m, a[2]).name, a[3]), "array",
                           a[2], a[3], <<>>, DefaultModifiers))
    [] f.cmd = "kEnumType" ->
         Register(m, a[1],
           MakeSymbol("Type", a[2], "enum", Null, 0, <<>>, DefaultModifiers))
    [] f.cmd = "kFunctionDeclaration" ->
         Register(m, a[1], MakeFunctionDeclaration(a[2], a[3], a[5], a[6]))
    [] f.cmd = "kField" ->
         takeOwnershipOfSymbol(m,
           MakeSymbol("Field", <<>>, "", a[1], a[2], <<>>, DefaultModifiers))
    [] f.cmd = "kStructType" ->
         Register(m, a[1],
           MakeSymbol("Type", a[2], "struct", Null, 0, Groups(a[4], 3),
                      DefaultModifiers))
    [] f.cmd = "kSymbolRef" -> LookupId(m, a[1])
    [] f.cmd = "kSymbolAlias" ->
         Register(m, a[1],
           MakeSymbol("SymbolAlias", a[2], "", a[3], 0, <<>>, DefaultModifiers))
    [] f.cmd = "kSystemType" ->
         IF m.cur = Null THEN [m |-> Undefined(m), v |-> Null]
         ELSE LET result == Lookup(m, m.cur, a[2])
              IN  [ m |-> addSymbol(
                            IF result # Null /\ Sym(m, result).kind = "Type"
                            THEN m ELSE AssertFailed(m), a[1], result),
                    v |-> result ]
    [] f.cmd = "kUnresolvedFunction" ->
         IF a[3] = <<>> \/ a[3][1] = Null THEN [m |-> Undefined(m), v |-> Null]
         ELSE Register(m, a[1],
                MakeSymbol("UnresolvedFunction", Sym(m, a[3][1]).name, "", Null,
                           0, a[3], DefaultModifiers))
    [] f.cmd = "kVariable" ->
         Register(m, a[1], MakeSymbol("Variable", a[3], "", a[4], a[5], <<>>, a[2]))

Node(cmd, args) == [node |-> cmd, args |-> args]

\* a guard whose destructor restores nothing
KeepSymbols(m, f) == m

\* ~AutoRehydratorSymbolTable: fRehydrator->fSymbolTable = std::move(fOldSymbols)
RestoreSymbols(m, f) == [m EXCEPT !.cur = f.old]

\* symbolTable() without its last assignment
KeepTable(m, f) == m

\* Rehydrator::symbolTable: fSymbolTable = oldTable;
RestoreTable(m, f) == [m EXCEPT !.cur = f.old]

\* the case bodies of Rehydrator::element(), after their reads and calls
ElementBuild(m, f) ==
  LET a == f.vals IN
  CASE f.cmd = "kFunctionDefinition" ->
         IF a[1] = Null \/ a[1][1] = 0
            \/ Sym(m, a[1]).kind # "FunctionDeclaration"
         THEN [m |-> Undefined(m), v |-> NullNode]
         ELSE [ m |-> [m EXCEPT !.syms[a[1][2]].def = TRUE],
                v |-> Node(f.cmd, <<a[1], a[2], {a[4][i] : i \in 1..Len(a[4])}>>) ]
    [] f.cmd \in {"kInterfaceBlock", "kStructDefinition"} ->
         IF a[1] = Null THEN [m |-> Undefined(m), v |-> NullNode]
         ELSE [m |-> m, v |-> Node(f.cmd, a)]
    [] f.cmd = "kEnum" -> [m |-> m, v |-> Node(f.cmd, <<a[1], a[2], a[4]>>)]
    [] f.cmd = "kVarDeclarations" -> [m |-> m, v |-> Node(f.cmd, a)]
    [] f.cmd = "kElementsComplete" -> [m |-> m, v |-> NullNode]

\* the case bodies of Rehydrator::statement(); a block and a switch are built
\* over the active table, and ~AutoRehydratorSymbolTable then restores the
\* table that was active when the guard was constructed
StatementBuild(m, f) ==
  LET a == f.vals IN
  CASE f.cmd = "kBlock" ->
         [m |-> RestoreSymbols(m, f), v |-> Node(f.cmd, <<a[3], m.cur, a[4] # 0>>)]
    [] f.cmd = "kSwitch" ->
         [ m |-> RestoreSymbols(m, f),
           v |-> Node(f.cmd, <<a[1] # 0, a[3], Groups(a[5], 2), m.cur>>) ]
    [] f.cmd = "kIf" -> [m |-> m, v |-> Node(f.cmd, <<a[1] # 0, a[2], a[3], a[4]>>)]
    [] f.cmd = "kVoid" -> [m |-> m, v |-> NullNode]
    [] OTHER -> [m |-> m, v |-> Node(f.cmd, a)]

\* the case bodies of Rehydrator::expression(); a constructor and a call
\* dereference the type or function they were given
ExpressionBuild(m, f) ==
  LET a == f.vals IN
  CASE f.cmd = "kVoid" -> [m |-> m, v |-> NullNode]
    [] f.cmd = "kBoolLiteral" -> [m |-> m, v |-> Node(f.cmd, <<a[1] # 0>>)]
    [] f.cmd \in {"kConstructorArray", "kConstructorCompound",
                  "kConstructorStruct"} ->
         IF a[1] = Null THEN [m |-> Undefined(m), v |-> NullNode]
         ELSE [m |-> m, v |-> Node(f.cmd, a)]
    [] f.cmd \in SingleArgumentConstructors ->
         IF a[1] = Null \/ a[2] = <<>> THEN [m |-> Undefined(m), v |-> NullNode]
         ELSE [m |-> m, v |-> Node(f.cmd, <<a[1], a[2][1]>>)]
    [] f.cmd = "kFunctionCall" ->
         IF a[2] = Null THEN [m |-> Undefined(m), v |-> NullNode]
         ELSE [m |-> m, v |-> Node(f.cmd, a)]
    [] OTHER -> [m |-> m, v |-> Node(f.cmd, a)]

\* what a finished call returns, and what returning does
Build(m, f) ==
  CASE f.fn = "layout" -> LayoutBuild(m, f)
    [] f.fn = "modifiers" -> ModifiersBuild(m, f)
    [] f.fn = "symbol" -> SymbolBuild(m, f)
    [] f.fn = "element" -> ElementBuild(m, f)
    [] f.fn = "statement" -> StatementBuild(m, f)
    [] f.fn = "expression" -> ExpressionBuild(m, f)
    [] f.fn = "type" -> [m |-> m, v |-> f.vals[1]]
    [] f.fn = "symbolRef" -> LookupId(m, f.vals[1])
    [] f.fn = "expressionArray" -> [m |-> m, v |-> f.vals[2]]
    [] f.fn = "symbolTable" -> [m |-> RestoreTable(m, f), v |-> f.tab]


(***************************************************************************)
(* Running a frame.                                                        *)
(***************************************************************************)
Top(m) == m.stack[Len(m.stack)]

WithTop(m, f) == [m EXCEPT !.stack[Len(m.stack)] = f]

InLoop(f) == f.lp # <<0, 0>>

\* the value decoded last by the call
LastVal(f) == IF InLoop(f) THEN f.acc[Len(f.acc)] ELSE f.vals[Len(f.vals)]

\* a value was decoded: keep it and go on to the next item
PushVal(f, v) ==
  IF InLoop(f) THEN [f EXCEPT !.acc = Append(@, v), !.pc = @ + 1]
  ELSE [f EXCEPT !.vals = Append(@, v), !.pc = @ + 1]

Advance(m) == WithTop(m, [Top(m) EXCEPT !.pc = @ + 1])

ReadItems == {"u8", "s8", "u16", "s16", "s32", "u32", "str"}

ReadItem(m, item) ==
  CASE item = "u8" -> readU8(m)
    [] item = "s8" -> readS8(m)
    [] item = "u16" -> readU16(m)
    [] item = "s16" -> readS16(m)
    [] item = "s32" -> readS32(m)
    [] item = "u32" -> readU32(m)
    [] item = "str" -> readString(m)

\* the value a read returned becomes a local of the active call
Keep(r) == IF Running(r.m) THEN WithTop(r.m, PushVal(Top(r.m), r.v)) ELSE r.m

\* switch (kind) over the tag t that was read, with its default: case
Switch(t) ==
  IF ~Running(t.m) THEN t.m
  ELSE IF CommandOf(t.v) \in CommandsOf(Top(t.m).fn)
       THEN WithTop(t.m, [Top(t.m) EXCEPT !.cmd = CommandOf(t.v)])
  ELSE IF t.m.dbg THEN AssertFailed(t.m)
  ELSE WithTop(t.m, [Top(t.m) EXCEPT !.cmd = "default", !.done = TRUE,
                                     !.res = DefaultResult(Top(t.m).fn)])

\* a symbolTable() that reads the owned-symbol count before it looks at the
\* command
TableTagAfterTheCount(t) ==
  IF ~Running(t.m) THEN t.m
  ELSE IF CommandOf(t.v) = "kVoid"
       THEN LET ownedCount == readU16(t.m) IN
            IF Running(ownedCount.m)
            THEN WithTop(ownedCount.m,
                         [Top(ownedCount.m) EXCEPT !.done = TRUE, !.res = Null])
            ELSE ownedCount.m
  ELSE IF CommandOf(t.v) = "kSymbolTable" THEN Advance(t.m)
  ELSE Advance(AssertFailed(t.m))

\* Rehydrator::symbolTable(): int command = this->readU8(); if (command ==
\* kVoid_Command) return nullptr; SkASSERT(command == kSymbolTable_Command);
TableTag(t) ==
  IF ~Running(t.m) THEN t.m
  ELSE IF CommandOf(t.v) = "kVoid"
       THEN WithTop(t.m, [Top(t.m) EXCEPT !.done = TRUE, !.res = Null])
  ELSE IF CommandOf(t.v) = "kSymbolTable" THEN Advance(t.m)
  ELSE Advance(AssertFailed(t.m))

\* oldTable = fSymbolTable; result = make_shared<SymbolTable>(...);
\* fSymbolTable = result;
NewTable(m) ==
  WithTop([m EXCEPT !.tabs = Append(@, [ parent |-> IF Top(m).inherit
                                                     THEN m.cur ELSE Null,
                                         builtin |-> TRUE, owned |-> <<>>,
                                         refs |-> <<>>, nodes |-> <<>> ]),
                    !.cur = <<m.self, Len(m.tabs) + 1>>],
          [Top(m) EXCEPT !.old = m.cur, !.tab = <<m.self, Len(m.tabs) + 1>>,
                         !.pc = @ + 1])

\* a reference list whose entries the table takes as its own
TableRefOwning(index) ==
  IF ~Running(index.m) THEN index.m
  ELSE IF index.v >= Len(Top(index.m).vals[2]) THEN Undefined(index.m)
  ELSE IF index.m.cur = Null THEN Undefined(index.m)
  ELSE Keep([ m |-> [addWithoutOwnership(index.m,
                                         Top(index.m).vals[2][index.v + 1])
                       EXCEPT !.tabs[index.m.cur[2]].owned =
                                Append(@, Top(index.m).vals[2][index.v + 1])],
              v |-> index.v ])

\* int index = this->readU16();
\* fSymbolTable->addWithoutOwnership(ownedSymbols[index]);
TableRef(index) ==
  IF ~Running(index.m) THEN index.m
  ELSE IF index.v >= Len(Top(index.m).vals[2]) THEN Undefined(index.m)
  ELSE Keep([ m |-> addWithoutOwnership(index.m,
                                        Top(index.m).vals[2][index.v + 1]),
              v |-> index.v ])

\* for (auto& s : symbols->fOwnedSymbols): the number of iterations
OwnedSymbols(m) ==
  IF LastVal(Top(m)) = Null THEN Undefined(m)
  ELSE Keep([m |-> m, v |-> Len(m.tabs[LastVal(Top(m))[2]].owned)])

\* a declaration whose value went through a 16-bit read
Declaration16(m, s, value) ==
  Node("VarDeclaration",
       <<s, Sym(m, s).type, 0, Node("kIntLiteral", <<value % 65536>>)>>)

\* IntLiteral::Make(fContext, -1, value) and VarDeclaration::Make(fContext,
\* &v, &v.type(), 0, valueLiteral) for the owned symbol s
Declaration(m, s, value) ==
  Node("VarDeclaration", <<s, Sym(m, s).type, 0, Node("kIntLiteral", <<value>>)>>)

\* the body of that loop for the owned symbol s of table t: s is taken for a
\* Variable, value is read, and the table takes the declaration that stores
\* the value
EnumValue(m, t, s, value) ==
  IF Sym(m, s).kind # "Variable"
  THEN (IF m.dbg THEN AssertFailed(m) ELSE Undefined(m))
  ELSE IF ~Running(value.m) THEN value.m
  ELSE Keep([ m |-> [value.m EXCEPT !.tabs[t[2]].nodes =
                       Append(@, Declaration(m, s, value.v))],
              v |-> value.v ])

\* SkDEBUGCODE(uint8_t command = )this->readU8();
\* SkASSERT(command == kElements_Command);
ElementsCommand(t) ==
  IF ~Running(t.m) THEN t.m
  ELSE IF CommandOf(t.v) = "kElements" THEN Advance(t.m)
  ELSE Advance(AssertFailed(t.m))

\* SkASSERT(v && v->kind() == kind)
AssertKind(m, v, kind) ==
  IF v # Null /\ Sym(m, v).kind = kind
  THEN Advance(m) ELSE Advance(AssertFailed(m))

\* the items of a script that are neither reads nor calls
Special(m, item) ==
  LET f == Top(m)
      v == LastVal(f)
  IN
  CASE item = "tag" -> Switch(readU8(m))
    [] item = "assertType" ->
         \* SkASSERT(result->kind() == Symbol::Kind::kType)
         IF ~m.dbg THEN Advance(m)
         ELSE IF v = Null THEN Undefined(m)
         ELSE IF Sym(m, v).kind = "Type" THEN Advance(m) ELSE AssertFailed(m)
    [] item = "assertFunction" -> AssertKind(m, v, "FunctionDeclaration")
    [] item = "assertVariable" -> AssertKind(m, v, "Variable")
    [] item = "assertIsType" -> AssertKind(m, v, "Type")
    [] item = "assertOne" ->
         IF Len(v) = 1 THEN Advance(m) ELSE Advance(AssertFailed(m))
    [] item = "save" -> WithTop(m, [f EXCEPT !.old = m.cur, !.pc = @ + 1])
    [] item = "enter" -> Advance([m EXCEPT !.cur = v])
    [] item = "tableTag" -> TableTag(readU8(m))
    [] item = "newTable" -> NewTable(m)
    [] item = "tableRef" -> TableRef(readU16(m))
    [] item = "ownedSymbols" -> OwnedSymbols(m)
    [] item = "enumValue" ->
         EnumValue(m, f.vals[2],
                   m.tabs[f.vals[2][2]].owned[f.vals[3] - f.rem + 1], readS32(m))
    [] item = "elementsCommand" -> ElementsCommand(readU8(m))
    [] item = "more" ->
         \* while (std::unique_ptr<ProgramElement> elem = this->element())
         IF v.node = "null"
         THEN WithTop(m, [f EXCEPT !.done = TRUE, !.res = Node("elements", f.acc)])
         ELSE WithTop(m, [f EXCEPT !.acc = Append(@, v), !.vals = <<>>, !.pc = 2])

\* a "loopK" item: the value decoded last is the number of iterations
EnterLoop(m, k) ==
  IF LastVal(Top(m)) = 0
  THEN WithTop(m, [Top(m) EXCEPT !.vals = Append(@, <<>>), !.pc = @ + k + 1])
  ELSE WithTop(m, [Top(m) EXCEPT !.lp = <<Top(m).pc + 1, k>>,
                                 !.rem = LastVal(Top(m)), !.acc = <<>>,
                                 !.pc = @ + 1])

AtLoopEnd(f) == InLoop(f) /\ f.pc = f.lp[1] + f.lp[2]

\* the end of a loop body: another iteration, or the collected values
EndIteration(m) ==
  IF Top(m).rem > 1
  THEN WithTop(m, [Top(m) EXCEPT !.rem = @ - 1, !.pc = Top(m).lp[1]])
  ELSE WithTop(m, [Top(m) EXCEPT !.vals = Append(@, Top(m).acc), !.acc = <<>>,
                                 !.rem = 0, !.lp = <<0, 0>>])

LoopLength(item) ==
  CASE item = "loop1" -> 1 [] item = "loop2" -> 2 [] item = "loop3" -> 3
    [] OTHER -> 0

\* the record of a call f that returned r
Returned(f, r) ==
  [ fn |-> f.fn, cmd |-> f.cmd, inherit |-> f.inherit, at |-> f.at,
    end |-> r.m.ip, was |-> f.was, now |-> r.m.cur, tab |-> f.tab,
    vals |-> f.vals, res |-> r.v ]

\* the call f returns r: its frame goes, and its value goes to the caller, or
\* to the client when a public call returns
Deliver(f, r) ==
  IF ~Running(r.m) THEN r.m
  ELSE IF Len(r.m.stack) = 1
       THEN [r.m EXCEPT !.stack = <<>>, !.ret = <<r.v>>,
                        !.log = Append(@, Returned(f, r))]
  ELSE [r.m EXCEPT !.stack = Append(SubSeq(@, 1, Len(@) - 2),
                                     PushVal(@[Len(@) - 1], r.v)),
                   !.log = Append(@, Returned(f, r))]

Return(m) ==
  Deliver(Top(m), IF Top(m).done THEN [m |-> m, v |-> Top(m).res]
                  ELSE Build(m, Top(m)))

\* the next item of the script of the call f
Item(f) == ScriptOf(f)[f.pc]

\* the effect of an item that is no call
Effect(m, item) ==
  IF item \in ReadItems THEN Keep(ReadItem(m, item))
  ELSE IF LoopLength(item) > 0 THEN EnterLoop(m, LoopLength(item))
  ELSE Special(m, item)

\* run the active call up to its next call of a decode function (whose frame
\* is pushed) or to its return
RECURSIVE Run(_)
Run(m) ==
  IF ~Running(m) THEN m
  ELSE IF AtLoopEnd(Top(m)) /\ ~Top(m).done THEN Run(EndIteration(m))
  ELSE IF Top(m).done \/ Top(m).pc > Len(ScriptOf(Top(m))) THEN Return(m)
  ELSE IF Item(Top(m)) \in CallItems
       THEN [m EXCEPT !.stack = Append(@, NewFrame(m, Item(Top(m))))]
  ELSE Run(Effect(m, Item(Top(m))))


(***************************************************************************)
(* The inputs: byte streams as the serializer (not part of the sources at  *)
(* hand) lays them out: a 16-bit length of the string table, the strings   *)
(* (a length byte, then the characters), then the tagged records.          *)
(***************************************************************************)
RECURSIVE Cat(_)
Cat(seqs) == IF seqs = <<>> THEN <<>> ELSE Head(seqs) \o Cat(Tail(seqs))

E8(n) == <<(n + 256) % 256>>
E16(n) == <<(n + 65536) % 256, ((n + 65536) \div 256) % 256>>
E32(n) ==
  LET k == IF n >= 0 THEN n ELSE (n + 2147483647) + 1
  IN  E16(k % 65536) \o <<(k \div 65536) % 256,
                          (k \div 16777216) + (IF n >= 0 THEN 0 ELSE 128)>>

\* the names of the streams, in ASCII
Names ==
  [ int |-> <<105, 110, 116>>, float2 |-> <<102, 108, 111, 97, 116, 50>>,
    half4 |-> <<104, 97, 108, 102, 52>>, S |-> <<83>>,
    rgba |-> <<114, 103, 98, 97>>, coord |-> <<99, 111, 111, 114, 100>>,
    f |-> <<102>>, v |-> <<118>>, E |-> <<69>>, A |-> <<65>> ]

Strings ==
  << Names.int, Names.float2, Names.half4, Names.S, Names.rgba, Names.coord,
     Names.f, Names.v, Names.E, Names.A >>

StringTable == Cat([i \in 1..Len(Strings) |-> <<Len(Strings[i])>> \o Strings[i]])

RECURSIVE StringOffset(_)
StringOffset(i) ==
  IF i = 1 THEN 2 ELSE StringOffset(i - 1) + 1 + Len(Strings[i - 1])

Str(name) == E16(StringOffset(CHOOSE i \in 1..Len(Strings) : Strings[i] = name))

\* a record: its tag, then its fields
Enc(cmd, fields) == <<TagOf(cmd)>> \o Cat(fields)

Mods == Enc("kDefaultModifiers", <<>>)
Void == Enc("kVoid", <<>>)
Ref(id) == Enc("kSymbolRef", <<E16(id)>>)
SystemType(id, name) == Enc("kSystemType", <<E16(id), Str(name)>>)
Variable(id, name, type) == Enc("kVariable", <<E16(id), Mods, Str(name), type, E8(0)>>)
Table(owned, refs) ==
  Enc("kSymbolTable",
      << E16(Len(owned)), Cat(owned), E16(Len(refs)),
         Cat([i \in 1..Len(refs) |-> E16(refs[i])]) >>)
Elements(elems) == Enc("kElements", <<Cat(elems), Enc("kElementsComplete", <<>>)>>)

\* a whole stream: the string table, the module's symbol table, its elements
Stream(table, elems) ==
  E16(Len(StringTable)) \o StringTable \o table \o Elements(elems)

(***************************************************************************)
(* A struct S { half4 rgba; float2 coord; }, n variables of type S, and a  *)
(* function f over them that returns half4, followed by the definitions of *)
(* S and f.                                                                *)
(***************************************************************************)
StructS ==
  Enc("kStructType",
      << E16(0), Str(Names.S), E8(2),
         Mods, Str(Names.rgba), SystemType(1, Names.half4),
         Mods, Str(Names.coord), SystemType(2, Names.float2) >>)

FunctionF(n) ==
  Enc("kFunctionDeclaration",
      << E16(3 + n), Mods, Str(Names.f), E8(n),
         Cat([i \in 1..n |-> E16(2 + i)]), Ref(1) >>)

StructAndFunction(n) ==
  Stream(Table(<<StructS>> \o [i \in 1..n |-> Variable(2 + i, Names.v, Ref(0))]
               \o <<FunctionF(n)>>,
               <<0, n + 1>>),
         << Enc("kStructDefinition", <<Ref(0)>>),
            Enc("kFunctionDefinition",
                <<E16(3 + n), Enc("kBlock", <<Void, E8(0), E8(1)>>), E8(1), E16(3 + n)>>) >>)

(***************************************************************************)
(* An enum E with n enumerators, whose values take both signs and more     *)
(* than 16 bits.                                                           *)
(***************************************************************************)
EnumeratorValue(i) == IF i % 2 = 1 THEN 0 - i - 1 ELSE 65536 * i + i

EnumE(n) ==
  Stream(Table(<<Enc("kEnumType", <<E16(0), Str(Names.E)>>)>>, <<0>>),
         << Enc("kEnum",
                << Str(Names.E),
                   Table([i \in 1..n |-> Variable(i, Names.A, Ref(0))],
                         [i \in 1..n |-> i - 1]),
                   Cat([i \in 1..n |-> E32(EnumeratorValue(i))]) >>) >>)

(***************************************************************************)
(* Statements nested d deep, blocks and switches in turn, each with a      *)
(* symbol table of its own.                                                *)
(***************************************************************************)
BoolLiteral(b) == Enc("kBoolLiteral", <<E8(b)>>)

RECURSIVE Nest(_)
Nest(d) ==
  IF d = 0 THEN Enc("kBreak", <<>>)
  ELSE IF d % 2 = 1
  THEN Enc("kBlock",
           << Table(<<Variable(d, Names.v, SystemType(0, Names.int))>>, <<0>>),
              E8(2), Nest(d - 1), Enc("kContinue", <<>>), E8(1) >>)
  ELSE Enc("kSwitch",
           << E8(0), Table(<<>>, <<>>), BoolLiteral(1), E8(1), BoolLiteral(0),
              Nest(d - 1) >>)

Nested(d) ==
  Stream(Table(<<>>, <<>>), <<Enc("kVarDeclarations", <<Nest(d)>>)>>)

(***************************************************************************)
(* One stream per group of statement, expression and symbol kinds, over a  *)
(* module table that owns a variable v (id 0) of type int (id 1) and a     *)
(* function f(v) (id 2) that returns int.                                  *)
(***************************************************************************)
ModuleTable ==
  Table(<< Variable(0, Names.v, SystemType(1, Names.int)),
           Enc("kFunctionDeclaration",
               <<E16(2), Mods, Str(Names.f), E8(1), E16(0), Ref(1)>>) >>,
        <<0, 1>>)

IntLiteral(n) == Enc("kIntLiteral", <<Ref(1), E32(n)>>)
VariableReference == Enc("kVariableReference", <<E16(0), E8(0)>>)

\* a stream whose elements are the global declarations of the statements
Declarations(statements) ==
  Stream(ModuleTable,
         [i \in 1..Len(statements) |-> Enc("kVarDeclarations", <<statements[i]>>)])

\* a stream whose elements are the expression statements of the expressions
Expressions(expressions) ==
  Declarations([i \in 1..Len(expressions) |->
                  Enc("kExpressionStatement", <<expressions[i]>>)])

StatementStreams ==
  { Declarations(<< Enc("kIf", <<E8(1), BoolLiteral(1), Enc("kDiscard", <<>>), Void>>),
                    Enc("kDo", <<Enc("kContinue", <<>>), BoolLiteral(0)>>) >>),
    Declarations(<< Enc("kFor", << Void, Void, Void, Enc("kBreak", <<>>),
                                   Table(<<>>, <<>>) >>),
                    Enc("kReturn", <<VariableReference>>) >>),
    Declarations(<< Enc("kInlineMarker", <<E16(2)>>),
                    Enc("kVarDeclaration",
                        <<E16(0), Ref(1), E8(0), IntLiteral(0 - 2)>>) >>) }

ExpressionStreams ==
  { Expressions(<< Enc("kBinary",
                       << IntLiteral(1), E8(1),
                          Enc("kFloatLiteral", <<Ref(1), E32(65536)>>) >>),
                   Enc("kTernary",
                       << BoolLiteral(1),
                          Enc("kPrefix", <<E8(1), VariableReference>>),
                          Enc("kPostfix", <<E8(1), VariableReference>>) >>) >>),
    Expressions(<< Enc("kConstructorCompound",
                       <<Ref(1), E8(2), IntLiteral(1), IntLiteral(2)>>),
                   Enc("kConstructorSplat", <<Ref(1), E8(1), VariableReference>>),
                   Enc("kFunctionCall",
                       <<Ref(1), E16(2), E8(1), VariableReference>>) >>),
    Expressions(<< Enc("kFieldAccess", <<VariableReference, E8(0), E8(0)>>),
                   Enc("kIndex", <<VariableReference, IntLiteral(0)>>),
                   Enc("kSwizzle", <<VariableReference, E8(2), E8(0), E8(1)>>),
                   Enc("kSetting", <<Str(Names.S)>>) >>) }

\* the layout and modifiers records, an array of a size and of none, a
\* field, an alias, an overload set, and an interface block
SymbolStreams ==
  { Stream(Table(<< Enc("kArrayType", <<E16(0), SystemType(1, Names.half4), E8(3)>>),
                    Enc("kArrayType", <<E16(2), Ref(0), E8(kUnsizedArray)>>),
                    Enc("kSymbolAlias", <<E16(3), Str(Names.A), Ref(2)>>) >>,
                 <<0, 2>>),
           <<>>),
    Stream(Table(<< Enc("kVariable",
                        << E16(0),
                           Enc("kModifiers8Bit",
                               <<Enc("kBuiltinLayout", <<E16(0 - 1)>>), E8(3)>>),
                           Str(Names.v), SystemType(1, Names.int), E8(0) >>),
                    Enc("kField", <<E16(0), E8(1)>>) >>,
                 <<0>>),
           <<Enc("kInterfaceBlock",
                 <<Ref(0), Str(Names.S), Str(Names.v), E8(0 - 1)>>)>>),
    Stream(Table(<< Enc("kUnresolvedFunction",
                        << E16(0), E8(1),
                           Enc("kFunctionDeclaration",
                               << E16(1),
                                  Enc("kModifiers",
                                      << Enc("kLayout",
                                             << E32(0 - 1), E8(1), E8(2), E8(3),
                                                E8(4), E8(5), E16(0 - 6), E8(7),
                                                E8(8), E8(9), E8(10),
                                                Str(Names.S), E8(0 - 1) >>),
                                         E32(0 - 65536) >>),
                                  Str(Names.f), E8(0),
                                  SystemType(2, Names.int) >>) >>) >>,
                 <<0>>),
           <<>>) }

\* the well-formed streams
BaseStreams ==
  {StructAndFunction(n) : n \in 0..MaxCount}
  \cup {EnumE(n) : n \in 0..MaxCount}
  \cup {Nested(d) : d \in 0..MaxDepth}
  \cup StatementStreams \cup ExpressionStreams \cup SymbolStreams

\* where the records of a stream begin
BodyStart == 2 + Len(StringTable)

\* a stream, or a stream with one byte of its records corrupted
Inputs ==
  BaseStreams
  \cup UNION { { [b EXCEPT ![i] = v] : i \in (BodyStart + 1)..Len(b),
                                        v \in (0..MaxMut) \cup {UnknownTag} }
               : b \in BaseStreams }

(***************************************************************************)
(* Construction, the client, and the steps of a session.                   *)
(***************************************************************************)
\* Rehydrator::Rehydrator over a builtin base table: fIP = fStart;
\* fIP += this->readU16();
Rehydrator(dbg, s, bytes) ==
  LET skip == readU16([ dbg |-> dbg, self |-> s, status |-> "running",
                        buf |-> bytes, ip |-> 0, cur |-> <<s, 1>>,
                        reg |-> EmptyRegistry, syms |-> <<>>,
                        tabs |-> <<BaseTable>>, stack |-> <<>>, ret |-> <<>>,
                        log |-> <<>> ])
  IN  [skip.m EXCEPT !.ip = @ + skip.v]

\* a session that was never constructed
Idle ==
  [ dbg |-> FALSE, self |-> 0, status |-> "idle", buf |-> <<>>, ip |-> 0,
    cur |-> Null, reg |-> EmptyRegistry, syms |-> <<>>, tabs |-> <<>>,
    stack |-> <<>>, ret |-> <<>>, log |-> <<>> ]

\* the number of threads of the test (16 in SkRuntimeEffectThreaded)
MaxThreads == 3

Threads == 1..MaxThreads

\* no thread was started, and the shared compiler is not in use
NoThreads ==
  /\ threads = [t \in Threads |-> [pc |-> "idle", effect |-> 0]]
  /\ compilerMutex = 0
  /\ compiler = [gImpl |-> FALSE, source |-> 0, program |-> 0]

nil == 0

\* no MTLRenderPassDescriptor
NilDescriptor == [isNil |-> TRUE]

\* GrMtlCommandBuffer::GrMtlCommandBuffer: no encoder is active, nothing was
\* encoded
NewCommandBuffer ==
  /\ fActiveBlitCommandEncoder = nil
  /\ fActiveRenderCommandEncoder = nil
  /\ fPreviousRenderPassDescriptor = NilDescriptor
  /\ fHasWork = FALSE
  /\ encoders = <<>>
  /\ returned = [op |-> "Make", args |-> <<>>, v |-> nil]

\* the variables hold the session records ms, and the clients the plans ps
Holds(ms, ps) ==
  /\ status = [s \in Sessions |-> ms[s].status]
  /\ buf = [s \in Sessions |-> ms[s].buf]
  /\ fIP = [s \in Sessions |-> ms[s].ip]
  /\ fSymbolTable = [s \in Sessions |-> ms[s].cur]
  /\ fSymbols = [s \in Sessions |-> ms[s].reg]
  /\ stack = [s \in Sessions |-> ms[s].stack]
  /\ syms = [s \in Sessions |-> ms[s].syms]
  /\ tabs = [s \in Sessions |-> ms[s].tabs]
  /\ plan = ps
  /\ out = [s \in Sessions |-> <<>>]
  /\ calls = [s \in Sessions |-> <<>>]
  /\ fErrors = [s \in Sessions |-> <<>>]
  /\ NoThreads
  /\ NewCommandBuffer

\* the client decodes a module: its symbol table, then its elements
ClientPlan == <<"symbolTable", "elements">>

\* one session over one input, in either build
Init ==
  /\ skDebug \in BOOLEAN
  /\ \E b \in Inputs :
       Holds([s \in Sessions |-> IF s = 1 THEN Rehydrator(skDebug, s, b) ELSE Idle],
             [s \in Sessions |-> IF s = 1 THEN ClientPlan ELSE <<>>])

\* the session becomes what the code made of it
Store(s, m) ==
  /\ status' = [status EXCEPT ![s] =
                  IF Running(m) /\ m.stack = <<>> /\ plan[s] = <<>>
                  THEN "done" ELSE m.status]
  /\ fIP' = [fIP EXCEPT ![s] = m.ip]
  /\ fSymbolTable' = [fSymbolTable EXCEPT ![s] = m.cur]
  /\ fSymbols' = [fSymbols EXCEPT ![s] = m.reg]
  /\ stack' = [stack EXCEPT ![s] = m.stack]
  /\ syms' = [syms EXCEPT ![s] = m.syms]
  /\ tabs' = [tabs EXCEPT ![s] = m.tabs]
  /\ out' = [out EXCEPT ![s] = @ \o m.ret]
  /\ calls' = [calls EXCEPT ![s] = m.log]
  /\ UNCHANGED <<skDebug, buf, plan, fErrors, rtVars>>

\* the decode function fn is the active call of session s
Active(s, fn) ==
  /\ status[s] = "running"
  /\ stack[s] # <<>>
  /\ stack[s][Len(stack[s])].fn = fn

\* the client makes its next public call: symbolTable() or elements()
Call(s) ==
  /\ status[s] = "running"
  /\ stack[s] = <<>>
  /\ plan[s] # <<>>
  /\ stack' = [stack EXCEPT ![s] = <<NewFrame(Session(s), Head(plan[s]))>>]
  /\ plan' = [plan EXCEPT ![s] = Tail(@)]
  /\ UNCHANGED << skDebug, status, buf, fIP, fSymbolTable, fSymbols, syms,
                  tabs, out, calls, fErrors, rtVars >>

layout(s) == Active(s, "layout") /\ Store(s, Run(Session(s)))
modifiers(s) == Active(s, "modifiers") /\ Store(s, Run(Session(s)))
symbol(s) == Active(s, "symbol") /\ Store(s, Run(Session(s)))
type(s) == Active(s, "type") /\ Store(s, Run(Session(s)))
symbolRef(s) == Active(s, "symbolRef") /\ Store(s, Run(Session(s)))
symbolTable(s) == Active(s, "symbolTable") /\ Store(s, Run(Session(s)))
elements(s) == Active(s, "elements") /\ Store(s, Run(Session(s)))
element(s) == Active(s, "element") /\ Store(s, Run(Session(s)))
statement(s) == Active(s, "statement") /\ Store(s, Run(Session(s)))
expression(s) == Active(s, "expression") /\ Store(s, Run(Session(s)))
expressionArray(s) == Active(s, "expressionArray") /\ Store(s, Run(Session(s)))

Next ==
  \E s \in Sessions :
    \/ Call(s)
    \/ symbolTable(s)
    \/ layout(s)
    \/ modifiers(s)
    \/ symbol(s)
    \/ type(s)
    \/ symbolRef(s)
    \/ elements(s)
    \/ element(s)
    \/ statement(s)
    \/ expression(s)
    \/ expressionArray(s)

Spec == Init /\ [][Next]_vars


\* the streams the second session of a pair decodes
PairStreams == {StructAndFunction(MaxCount), EnumE(MaxCount), Nested(MaxDepth)}

\* two sessions, each constructed over a buffer of its own, in one build
InitPair ==
  /\ skDebug \in BOOLEAN
  /\ \E b1 \in BaseStreams, b2 \in PairStreams :
       Holds([s \in Sessions |-> Rehydrator(skDebug, s, IF s = 1 THEN b1 ELSE b2)],
             [s \in Sessions |-> ClientPlan])

\* the steps of the two sessions, interleaved in any order
SpecPair == InitPair /\ [][Next]_vars

(***************************************************************************)
(* The Type model: type descriptors, the builtin singletons of a Context,  *)
(* and the coercion cost of one type to another.                           *)
(***************************************************************************)
\* a type with no component type
NoType == [name |-> ""]

\* Type::MakeScalarType(name, abbrev, numberKind, priority, bitWidth)
MakeScalarType(name, numberKind, priority) ==
  [ name |-> name, typeKind |-> "kScalar", numberKind |-> numberKind,
    priority |-> priority, isLiteral |-> FALSE, columns |-> 1, rows |-> 1,
    componentType |-> NoType, hasCoercibleTypes |-> FALSE,
    fCoercibleTypes |-> <<>> ]

\* Type::MakeLiteralType(name, scalarType, priority): a scalar that answers
\* for its number kind as scalarType does
MakeLiteralType(name, scalarType, priority) ==
  [ name |-> name, typeKind |-> "kLiteral",
    numberKind |-> scalarType.numberKind, priority |-> priority,
    isLiteral |-> TRUE, columns |-> 1, rows |-> 1,
    componentType |-> NoType, hasCoercibleTypes |-> FALSE,
    fCoercibleTypes |-> <<>> ]

\* Type::MakeVectorType(name, abbrev, componentType, columns)
MakeVectorType(name, componentType, columns) ==
  [ name |-> name, typeKind |-> "kVector", numberKind |-> "kNonnumeric",
    priority |-> -1, isLiteral |-> FALSE, columns |-> columns, rows |-> 1,
    componentType |-> componentType, hasCoercibleTypes |-> FALSE,
    fCoercibleTypes |-> <<>> ]

\* Type::MakeMatrixType(name, abbrev, componentType, columns, rows)
MakeMatrixType(name, componentType, columns, rows) ==
  [ name |-> name, typeKind |-> "kMatrix", numberKind |-> "kNonnumeric",
    priority |-> -1, isLiteral |-> FALSE, columns |-> columns, rows |-> rows,
    componentType |-> componentType, hasCoercibleTypes |-> FALSE,
    fCoercibleTypes |-> <<>> ]

\* Type::MakeGenericType(name, types): the only types with a list of
\* coercible types; columns() and rows() answer -1 where assertions are
\* compiled out
MakeGenericType(name, types) ==
  [ name |-> name, typeKind |-> "kGeneric", numberKind |-> "kNonnumeric",
    priority |-> -1, isLiteral |-> FALSE, columns |-> -1, rows |-> -1,
    componentType |-> NoType, hasCoercibleTypes |-> TRUE,
    fCoercibleTypes |-> types ]

\* Type::MakeSpecialType(name, abbrev, typeKind): void and the like
MakeSpecialType(name) ==
  [ name |-> name, typeKind |-> "kOther", numberKind |-> "kNonnumeric",
    priority |-> -1, isLiteral |-> FALSE, columns |-> -1, rows |-> -1,
    componentType |-> NoType, hasCoercibleTypes |-> FALSE,
    fCoercibleTypes |-> <<>> ]

\* the scalar singletons of BuiltinTypes
fScalars ==
  [ fFloat  |-> MakeScalarType("float", "kFloat", 10),
    fHalf   |-> MakeScalarType("half", "kFloat", 9),
    fInt    |-> MakeScalarType("int", "kSigned", 7),
    fUInt   |-> MakeScalarType("uint", "kUnsigned", 6),
    fShort  |-> MakeScalarType("short", "kSigned", 4),
    fUShort |-> MakeScalarType("ushort", "kUnsigned", 3),
    fBool   |-> MakeScalarType("bool", "kBoolean", 0) ]

\* a vector singleton: name "float3" for component float and 3 columns
Vec(c, n) == MakeVectorType(c.name \o ToString(n), c, n)

\* a matrix singleton: name "half3x2" for component half, 3 columns, 2 rows
Mat(c, n, r) ==
  MakeMatrixType(c.name \o ToString(n) \o "x" \o ToString(r), c, n, r)

\* context.fTypes: the builtin singletons of a Context
fTypes ==
  [ fFloat |-> fScalars.fFloat, fHalf |-> fScalars.fHalf,
    fInt |-> fScalars.fInt, fUInt |-> fScalars.fUInt,
    fShort |-> fScalars.fShort, fUShort |-> fScalars.fUShort,
    fBool |-> fScalars.fBool,
    fIntLiteral |-> MakeLiteralType("$intLiteral", fScalars.fInt, 8),
    fFloatLiteral |-> MakeLiteralType("$floatLiteral", fScalars.fFloat, 8),
    fFloat2 |-> Vec(fScalars.fFloat, 2),
    fFloat3 |-> Vec(fScalars.fFloat, 3),
    fFloat4 |-> Vec(fScalars.fFloat, 4),
    fHalf2 |-> Vec(fScalars.fHalf, 2),
    fHalf3 |-> Vec(fScalars.fHalf, 3),
    fHalf4 |-> Vec(fScalars.fHalf, 4),
    fInt2 |-> Vec(fScalars.fInt, 2),
    fInt3 |-> Vec(fScalars.fInt, 3),
    fInt4 |-> Vec(fScalars.fInt, 4),
    fUInt2 |-> Vec(fScalars.fUInt, 2),
    fUInt3 |-> Vec(fScalars.fUInt, 3),
    fUInt4 |-> Vec(fScalars.fUInt, 4),
    fShort2 |-> Vec(fScalars.fShort, 2),
    fShort3 |-> Vec(fScalars.fShort, 3),
    fShort4 |-> Vec(fScalars.fShort, 4),
    fUShort2 |-> Vec(fScalars.fUShort, 2),
    fUShort3 |-> Vec(fScalars.fUShort, 3),
    fUShort4 |-> Vec(fScalars.fUShort, 4),
    fBool2 |-> Vec(fScalars.fBool, 2),
    fBool3 |-> Vec(fScalars.fBool, 3),
    fBool4 |-> Vec(fScalars.fBool, 4),
    fFloat2x2 |-> Mat(fScalars.fFloat, 2, 2),
    fFloat2x3 |-> Mat(fScalars.fFloat, 2, 3),
    fFloat2x4 |-> Mat(fScalars.fFloat, 2, 4),
    fFloat3x2 |-> Mat(fScalars.fFloat, 3, 2),
    fFloat3x3 |-> Mat(fScalars.fFloat, 3, 3),
    fFloat3x4 |-> Mat(fScalars.fFloat, 3, 4),
    fFloat4x2 |-> Mat(fScalars.fFloat, 4, 2),
    fFloat4x3 |-> Mat(fScalars.fFloat, 4, 3),
    fFloat4x4 |-> Mat(fScalars.fFloat, 4, 4),
    fHalf2x2 |-> Mat(fScalars.fHalf, 2, 2),
    fHalf2x3 |-> Mat(fScalars.fHalf, 2, 3),
    fHalf2x4 |-> Mat(fScalars.fHalf, 2, 4),
    fHalf3x2 |-> Mat(fScalars.fHalf, 3, 2),
    fHalf3x3 |-> Mat(fScalars.fHalf, 3, 3),
    fHalf3x4 |-> Mat(fScalars.fHalf, 3, 4),
    fHalf4x2 |-> Mat(fScalars.fHalf, 4, 2),
    fHalf4x3 |-> Mat(fScalars.fHalf, 4, 3),
    fHalf4x4 |-> Mat(fScalars.fHalf, 4, 4),
    fVoid |-> MakeSpecialType("void"),
    fInvalid |-> MakeSpecialType("<INVALID>"),
    fGenType |-> MakeGenericType("$genType",
                   << fScalars.fFloat, Vec(fScalars.fFloat, 2),
                      Vec(fScalars.fFloat, 3), Vec(fScalars.fFloat, 4) >>),
    fGenIType |-> MakeGenericType("$genIType",
                    << fScalars.fInt, Vec(fScalars.fInt, 2),
                       Vec(fScalars.fInt, 3), Vec(fScalars.fInt, 4) >>),
    fVec |-> MakeGenericType("$vec",
               << MakeSpecialType("<INVALID>"), Vec(fScalars.fFloat, 2),
                  Vec(fScalars.fFloat, 3), Vec(fScalars.fFloat, 4) >>) ]

\* every builtin singleton
Types == {fTypes[f] : f \in DOMAIN fTypes}

\* bool Type::operator==(const Type& other): two types are equal when their
\* names are
TypeEq(a, b) == a.name = b.name

isScalar(t) == t.typeKind \in {"kScalar", "kLiteral"}
isVector(t) == t.typeKind = "kVector"
isMatrix(t) == t.typeKind = "kMatrix"
isInteger(t) == t.numberKind \in {"kSigned", "kUnsigned"}
isNumber(t) == t.numberKind = "kFloat" \/ isInteger(t)

\* struct CoercionCost { fNormalCost, fNarrowingCost, fImpossible } and its
\* four factories
Free == [fNormalCost |-> 0, fNarrowingCost |-> 0, fImpossible |-> FALSE]
Normal(cost) ==
  [fNormalCost |-> cost, fNarrowingCost |-> 0, fImpossible |-> FALSE]
Narrowing(cost) ==
  [fNormalCost |-> 0, fNarrowingCost |-> cost, fImpossible |-> FALSE]
Impossible == [fNormalCost |-> 0, fNarrowingCost |-> 0, fImpossible |-> TRUE]

\* the position, from 0, of the first entry of the list that equals other;
\* the length of the list when none does
RECURSIVE FirstMatch(_, _, _)
FirstMatch(list, other, i) ==
  IF i >= Len(list) \/ TypeEq(list[i + 1], other) THEN i
  ELSE FirstMatch(list, other, i + 1)

\* a match in the coercible-type list that costs its position counted from 0
CoercibleFromZero(this, other) ==
  IF this.hasCoercibleTypes
     /\ FirstMatch(this.fCoercibleTypes, other, 0) < Len(this.fCoercibleTypes)
  THEN Normal(FirstMatch(this.fCoercibleTypes, other, 0))
  ELSE Impossible

\* if (fCoercibleTypes) { for (i...) if (*(*fCoercibleTypes)[i] == other)
\* return CoercionCost::Normal((int) i + 1); } return Impossible();
Coercible(this, other) ==
  IF this.hasCoercibleTypes
     /\ FirstMatch(this.fCoercibleTypes, other, 0) < Len(this.fCoercibleTypes)
  THEN Normal(FirstMatch(this.fCoercibleTypes, other, 0) + 1)
  ELSE Impossible

\* numeric scalars whose priorities are compared the wrong way round
NumericSwapped(this, other) ==
  IF this.isLiteral /\ isInteger(this) THEN Free
  ELSE IF this.numberKind # other.numberKind THEN Impossible
  ELSE IF this.priority >= other.priority
       THEN Normal(this.priority - other.priority)
       ELSE Narrowing(other.priority - this.priority)

\* numeric scalars compared by priority whatever their number kinds
NumericIgnoringKind(this, other) ==
  IF this.isLiteral /\ isInteger(this) THEN Free
  ELSE IF other.priority >= this.priority
       THEN Normal(other.priority - this.priority)
       ELSE Narrowing(this.priority - other.priority)

\* numeric scalars compared by number kind before the source is asked
\* whether it is an integer literal
NumericByKindFirst(this, other) ==
  IF this.numberKind # other.numberKind THEN Impossible
  ELSE IF this.isLiteral /\ isInteger(this) THEN Free
  ELSE IF other.priority >= this.priority
       THEN Normal(other.priority - this.priority)
       ELSE Narrowing(this.priority - other.priority)

\* the body of if (this->isNumber() && other.isNumber())
Numeric(this, other) ==
  IF this.isLiteral /\ isInteger(this) THEN Free
  ELSE IF this.numberKind # other.numberKind THEN Impossible
  ELSE IF other.priority >= this.priority
       THEN Normal(other.priority - this.priority)
       ELSE Narrowing(this.priority - other.priority)

\* vectors and matrices compared by their component types whatever their
\* shapes
RECURSIVE coercionCostOfComponents(_, _)
coercionCostOfComponents(this, other) ==
  IF TypeEq(this, other) THEN Free
  ELSE IF (isVector(this) /\ isVector(other))
          \/ (isMatrix(this) /\ isMatrix(other))
       THEN coercionCostOfComponents(this.componentType, other.componentType)
  ELSE IF isMatrix(this) THEN Impossible
  ELSE IF isNumber(this) /\ isNumber(other) THEN Numeric(this, other)
  ELSE Coercible(this, other)

\* CoercionCost Type::coercionCost(const Type& other) const
RECURSIVE coercionCost(_, _)
coercionCost(this, other) ==
  IF TypeEq(this, other) THEN Free
  ELSE IF isVector(this) /\ isVector(other)
       THEN IF this.columns = other.columns
            THEN coercionCost(this.componentType, other.componentType)
            ELSE Impossible
  ELSE IF isMatrix(this)
       THEN IF this.columns = other.columns /\ this.rows = other.rows
            THEN coercionCost(this.componentType, other.componentType)
            ELSE Impossible
  ELSE IF isNumber(this) /\ isNumber(other) THEN Numeric(this, other)
  ELSE Coercible(this, other)

\* other.columns() of a type that has no columns is asked: SkDEBUGFAIL
NoColumns(this, other) ==
  /\ ~TypeEq(this, other)
  /\ isMatrix(this)
  /\ other.columns < 0

(***************************************************************************)
(* Type::toCompound, and the calls an analyzer makes on the Type model.    *)
(***************************************************************************)
\* the call returned the type v
Returns(v) == [fatal |-> FALSE, type |-> v]

\* SK_ABORT, and SkASSERT or SkDEBUGFAILF in a debug build: the call never
\* returns
Fatal == [fatal |-> TRUE, type |-> NoType]

\* switch (columns) over a family's vectors: case 1 .. case 4, default
\* SK_ABORT("unsupported vector column count")
VectorCase(family, columns) ==
  IF columns \in 1..4 THEN Returns(family[columns]) ELSE Fatal

\* switch (columns) over a family's matrices of one row count: case 2 ..
\* case 4, default SK_ABORT("unsupported matrix column count")
MatrixCase(family, columns) ==
  IF columns \in 2..4 THEN Returns(family[columns - 1]) ELSE Fatal

\* the switch (rows) of a family with vectors only
VectorFamily(v, columns, rows) ==
  IF rows = 1 THEN VectorCase(v, columns) ELSE Fatal

\* a family whose matrices are looked up by rows where the columns belong
MatrixFamilyTransposed(v, m2, m3, m4, columns, rows) ==
  CASE rows = 1 -> VectorCase(v, columns)
    [] rows \in 2..4 /\ columns = 2 -> MatrixCase(m2, rows)
    [] rows \in 2..4 /\ columns = 3 -> MatrixCase(m3, rows)
    [] rows \in 2..4 /\ columns = 4 -> MatrixCase(m4, rows)
    [] OTHER -> Fatal

\* the switch (rows) of a family with vectors and matrices
MatrixFamily(v, m2, m3, m4, columns, rows) ==
  CASE rows = 1 -> VectorCase(v, columns)
    [] rows = 2 -> MatrixCase(m2, columns)
    [] rows = 3 -> MatrixCase(m3, columns)
    [] rows = 4 -> MatrixCase(m4, columns)
    [] OTHER -> Fatal

\* const Type& Type::toCompound(const Context& context, int columns,
\* int rows) const, in the build dbg
toCompound(dbg, this, columns, rows) ==
  LET T == fTypes IN
  IF dbg /\ ~isScalar(this) THEN Fatal
  ELSE IF columns = 1 /\ rows = 1 THEN Returns(this)
  ELSE IF TypeEq(this, T.fFloat) \/ TypeEq(this, T.fFloatLiteral)
    THEN MatrixFamily(<<T.fFloat, T.fFloat2, T.fFloat3, T.fFloat4>>,
                      <<T.fFloat2x2, T.fFloat3x2, T.fFloat4x2>>,
                      <<T.fFloat2x3, T.fFloat3x3, T.fFloat4x3>>,
                      <<T.fFloat2x4, T.fFloat3x4, T.fFloat4x4>>,
                      columns, rows)
  ELSE IF TypeEq(this, T.fHalf)
    THEN MatrixFamily(<<T.fHalf, T.fHalf2, T.fHalf3, T.fHalf4>>,
                      <<T.fHalf2x2, T.fHalf3x2, T.fHalf4x2>>,
                      <<T.fHalf2x3, T.fHalf3x3, T.fHalf4x3>>,
                      <<T.fHalf2x4, T.fHalf3x4, T.fHalf4x4>>,
                      columns, rows)
  ELSE IF TypeEq(this, T.fInt) \/ TypeEq(this, T.fIntLiteral)
    THEN VectorFamily(<<T.fInt, T.fInt2, T.fInt3, T.fInt4>>, columns, rows)
  ELSE IF TypeEq(this, T.fShort)
    THEN VectorFamily(<<T.fShort, T.fShort2, T.fShort3, T.fShort4>>,
                      columns, rows)
  ELSE IF TypeEq(this, T.fUInt)
    THEN VectorFamily(<<T.fUInt, T.fUInt2, T.fUInt3, T.fUInt4>>,
                      columns, rows)
  ELSE IF TypeEq(this, T.fUShort)
    THEN VectorFamily(<<T.fUShort, T.fUShort2, T.fUShort3, T.fUShort4>>,
                      columns, rows)
  ELSE IF TypeEq(this, T.fBool)
    THEN VectorFamily(<<T.fBool, T.fBool2, T.fBool3, T.fBool4>>,
                      columns, rows)
  ELSE IF dbg THEN Fatal
  ELSE Returns(T.fVoid)

(***************************************************************************)
(* Type::clone, over the symbols and symbol tables of a compilation.       *)
(***************************************************************************)
\* bool Type::isInBuiltinTypes() const: every type that is not an array, a
\* struct or an enum is one of the builtin singletons
isInBuiltinTypes(rec) == rec.tk \notin {"array", "struct", "enum"}

\* SymbolTable::add on the table t: the table owns the symbol and enters
\* its name
add(m, t, rec) ==
  LET own == takeOwnershipOfSymbol([m EXCEPT !.cur = t], rec)
  IN  [ m |-> [addWithoutOwnership(own.m, own.v) EXCEPT !.cur = m.cur],
        v |-> own.v ]

\* a clone that asks the table for the type's name before anything else
cloneByLookup(m, this, table) ==
  [m |-> m, v |-> Lookup(m, table, Sym(m, this).name)]

\* a clone that copies the type into the table whether or not the table
\* knows its name
cloneAlways(m, this, table) ==
  LET rec == Sym(m, this)
  IN  IF isInBuiltinTypes(rec) THEN [m |-> m, v |-> this]
      ELSE add(m, table,
               MakeSymbol("Type", rec.name, rec.tk, rec.type, rec.n, rec.list,
                          DefaultModifiers))

\* const Type* Type::clone(SymbolTable* symbolTable) const
clone(m, this, table) ==
  LET rec == Sym(m, this)
      clonedSymbol == Lookup(m, table, rec.name)
  IN  IF isInBuiltinTypes(rec) THEN [m |-> m, v |-> this]
      ELSE IF clonedSymbol # Null
        THEN IF Sym(m, clonedSymbol).kind # "Type"
               THEN [m |-> IF m.dbg THEN AssertFailed(m) ELSE Undefined(m),
                     v |-> Null]
             ELSE IF Sym(m, clonedSymbol).tk # rec.tk
               THEN [m |-> AssertFailed(m), v |-> clonedSymbol]
             ELSE [m |-> m, v |-> clonedSymbol]
      ELSE IF rec.tk = "array"
        THEN add(m, table,
                 MakeSymbol("Type", rec.name, "array", rec.type, rec.n, <<>>,
                            DefaultModifiers))
      ELSE IF rec.tk = "struct"
        THEN add(m, table,
                 MakeSymbol("Type", rec.name, "struct", Null, 0, rec.list,
                            DefaultModifiers))
      ELSE IF rec.tk = "enum"
        THEN add(m, table,
                 MakeSymbol("Type", rec.name, "enum", Null, 0, <<>>,
                            DefaultModifiers))
      ELSE [m |-> AssertFailed(m), v |-> Null]

(***************************************************************************)
(* Type::coerceExpression.                                                 *)
(***************************************************************************)
\* a null std::unique_ptr<Expression>
NoExpression == [kind |-> "nullptr"]

\* an expression: its kind, its type, its offset in the source, and the
\* constant values of its slots (checkForOutOfRangeLiteral reads them)
Expression(kind, t, offset, slots) ==
  [kind |-> kind, type |-> t, fOffset |-> offset, slots |-> slots]

\* context.fErrors.error(offset, msg)
Error(offset, msg) == [offset |-> offset, msg |-> msg]

\* bool CoercionCost::isPossible(bool allowNarrowing) const
isPossible(cost, allowNarrowing) ==
  ~cost.fImpossible /\ (cost.fNarrowingCost = 0 \/ allowNarrowing)

\* ConstructorScalarCast::Make(context, offset, type, std::move(expr))
ConstructorScalarCast(offset, t, expr) ==
  [ kind |-> "ConstructorScalarCast", type |-> t, fOffset |-> offset,
    argument |-> expr ]

\* ConstructorCompoundCast::Make(context, offset, type, std::move(expr))
ConstructorCompoundCast(offset, t, expr) ==
  [ kind |-> "ConstructorCompoundCast", type |-> t, fOffset |-> offset,
    argument |-> expr ]

\* what a call of coerceExpression did: the errors it reported and the
\* expression it returned
Coerced(errors, expr) == [fatal |-> FALSE, errors |-> errors, v |-> expr]

\* the call never returned
CoerceFatal == [fatal |-> TRUE, errors |-> <<>>, v |-> NoExpression]

\* a coercion that compares the types before it looks for a reference
coerceSameTypeFirst(dbg, this, expr, fAllowNarrowingConversions) ==
  IF expr = NoExpression THEN Coerced(<<>>, NoExpression)
  ELSE IF TypeEq(expr.type, this) THEN Coerced(<<>>, expr)
  ELSE Coerced(<<Error(expr.fOffset, "expected '('")>>, NoExpression)

\* a coercion that takes every cost for a possible one
coerceWhateverTheCost(dbg, this, expr, fAllowNarrowingConversions) ==
  IF expr = NoExpression THEN Coerced(<<>>, NoExpression)
  ELSE IF expr.kind \in {"FunctionReference", "TypeReference"}
    THEN Coerced(<<Error(expr.fOffset, "expected '('")>>, NoExpression)
  ELSE IF TypeEq(expr.type, this) THEN Coerced(<<>>, expr)
  ELSE Coerced(<<>>, ConstructorScalarCast(expr.fOffset, this, expr))

\* a coercion that wraps an expression that already has the type
coerceAlwaysCasts(dbg, this, expr, fAllowNarrowingConversions) ==
  IF expr = NoExpression THEN Coerced(<<>>, NoExpression)
  ELSE IF expr.kind \in {"FunctionReference", "TypeReference"}
    THEN Coerced(<<Error(expr.fOffset, "expected '('")>>, NoExpression)
  ELSE IF ~isPossible(coercionCost(expr.type, this), fAllowNarrowingConversions)
    THEN Coerced(<<Error(expr.fOffset, "expected type")>>, NoExpression)
  ELSE Coerced(<<>>, ConstructorScalarCast(expr.fOffset, this, expr))

\* a coercion that casts to every type as to a scalar
coerceScalarCastOnly(dbg, this, expr, fAllowNarrowingConversions) ==
  IF expr = NoExpression THEN Coerced(<<>>, NoExpression)
  ELSE IF expr.kind \in {"FunctionReference", "TypeReference"}
    THEN Coerced(<<Error(expr.fOffset, "expected '('")>>, NoExpression)
  ELSE IF TypeEq(expr.type, this) THEN Coerced(<<>>, expr)
  ELSE IF ~isPossible(coercionCost(expr.type, this), fAllowNarrowingConversions)
    THEN Coerced(<<Error(expr.fOffset, "expected type")>>, NoExpression)
  ELSE Coerced(<<>>, ConstructorScalarCast(expr.fOffset, this, expr))

\* std::unique_ptr<Expression> Type::coerceExpression(
\* std::unique_ptr<Expression> expr, const Context& context) const, in the
\* build dbg and under settings.fAllowNarrowingConversions
coerceExpression(dbg, this, expr, fAllowNarrowingConversions) ==
  IF expr = NoExpression THEN Coerced(<<>>, NoExpression)
  ELSE IF expr.kind = "FunctionReference"
    THEN Coerced(<<Error(expr.fOffset, "expected '(' to begin function call")>>,
                 NoExpression)
  ELSE IF expr.kind = "TypeReference"
    THEN Coerced(<<Error(expr.fOffset,
                         "expected '(' to begin constructor invocation")>>,
                 NoExpression)
  ELSE IF TypeEq(expr.type, this) THEN Coerced(<<>>, expr)
  ELSE IF dbg /\ NoColumns(expr.type, this) THEN CoerceFatal
  ELSE IF ~isPossible(coercionCost(expr.type, this), fAllowNarrowingConversions)
    THEN Coerced(<<Error(expr.fOffset, "expected type, but found type")>>,
                 NoExpression)
  ELSE IF isScalar(this)
    THEN Coerced(<<>>, ConstructorScalarCast(expr.fOffset, this, expr))
  ELSE IF isVector(this) \/ isMatrix(this)
    THEN Coerced(<<>>, ConstructorCompoundCast(expr.fOffset, this, expr))
  ELSE Coerced(<<Error(expr.fOffset, "cannot construct type")>>, NoExpression)

(***************************************************************************)
(* Type::checkForOutOfRangeLiteral.  An SKSL_INT is 64 bits wide; a value  *)
(* v is kept as the pair <<v \div 65536, v % 65536>>, compared in that     *)
(* order.                                                                  *)
(***************************************************************************)
Less(a, b) == a[1] < b[1] \/ (a[1] = b[1] /\ a[2] < b[2])

\* bool Type::highPrecision() const: a bit width of 32 or more
highPrecision(t) == t.name \notin {"half", "short", "ushort"}

\* Type::minimumValue() and Type::maximumValue() of an integer type
minimumValue(t) ==
  IF t.numberKind = "kUnsigned" THEN <<0, 0>>
  ELSE IF highPrecision(t) THEN <<-32768, 0>> ELSE <<-1, 32768>>

maximumValue(t) ==
  IF t.numberKind = "kUnsigned"
  THEN IF highPrecision(t) THEN <<65535, 65535>> ELSE <<0, 65535>>
  ELSE IF highPrecision(t) THEN <<32767, 65535>> ELSE <<0, 32767>>

\* const Type& Type::componentType() const: of a scalar, the scalar
ComponentType(t) == IF isVector(t) \/ isMatrix(t) THEN t.componentType ELSE t

\* int Type::slotCount() const
slotCount(t) == t.columns * t.rows

\* a literal in a slot of a constant value
Literal(kind, value) == [kind |-> kind, value |-> value]

\* a reference to a variable: initialValue is the constant expression the
\* variable was declared with, NoExpression if it has none
ReferenceTo(t, offset, initialValue) ==
  [ kind |-> "VariableReference", type |-> t, fOffset |-> offset,
    slots |-> [i \in 1..slotCount(t) |-> NoExpression],
    initialValue |-> initialValue ]

\* ConstantFolder::GetConstantValueForVariable(expr)
GetConstantValueForVariable(expr) ==
  IF expr.kind = "VariableReference" /\ expr.initialValue # NoExpression
  THEN expr.initialValue ELSE expr

\* the body of the loop for one slot: the subexpression is an IntLiteral
\* whose value is out of the range of baseType
OutOfRange(baseType, subexpr) ==
  /\ subexpr # NoExpression
  /\ subexpr.kind = "IntLiteral"
  /\ \/ Less(subexpr.value, minimumValue(baseType))
     \/ Less(maximumValue(baseType), subexpr.value)

\* the slots of the value, from the first, that the loop looks at
Slots(valueExpr) == SubSeq(valueExpr.slots, 1, slotCount(valueExpr.type))

\* what a call of checkForOutOfRangeLiteral did
Checked(errors) == [errors |-> errors, v |-> errors # <<>>]

OutOfRangeError(this, expr, subexpr) ==
  Error(expr.fOffset, <<"integer is out of range for type", this.name,
                        subexpr.value>>)

\* a check that returns at the first value it finds out of range
checkUntilTheFirstError(this, expr) ==
  LET bad == SelectSeq(Slots(GetConstantValueForVariable(expr)),
                       LAMBDA sub : OutOfRange(ComponentType(this), sub))
  IN  IF isInteger(ComponentType(this)) /\ bad # <<>>
      THEN Checked(<<OutOfRangeError(this, expr, bad[1])>>)
      ELSE Checked(<<>>)

\* a check of every value against the range of int
checkAgainstTheRangeOfInt(this, expr) ==
  LET bad == SelectSeq(Slots(GetConstantValueForVariable(expr)),
                       LAMBDA sub : OutOfRange(fTypes.fInt, sub))
  IN  Checked([i \in 1..Len(bad) |-> OutOfRangeError(this, expr, bad[i])])

\* bool Type::checkForOutOfRangeLiteral(const Context& context,
\* const Expression& expr) const
checkForOutOfRangeLiteral(this, expr) ==
  LET baseType == ComponentType(this)
      bad == SelectSeq(Slots(GetConstantValueForVariable(expr)),
                       LAMBDA sub : OutOfRange(baseType, sub))
  IN  IF isInteger(baseType)
      THEN Checked([i \in 1..Len(bad) |-> OutOfRangeError(this, expr, bad[i])])
      ELSE Checked(<<>>)

(***************************************************************************)
(* An analyzer that calls the Type model.                                  *)
(***************************************************************************)
\* the largest column or row count an analyzer asks toCompound for
MaxShape == 5

NameS == <<83>>   \* "S"
NameE == <<69>>   \* "E"

\* the tables of a compilation: the builtin root table; a module's table
\* that owns a struct S { int x; }, an array int[MaxCount] and an enum E; a
\* program's table that inherits the module's; a table with no parent where
\* int is a variable; a table with no parent that owns a struct
\* S { float2 y; } and a struct named E; and a table with no parent where S
\* is a variable
Analyzer(dbg, s) ==
  [ Idle EXCEPT
      !.dbg = dbg, !.self = s, !.status = "running", !.cur = <<s, 3>>,
      !.syms = << MakeSymbol("Type", NameS, "struct", Null, 0,
                             <<<<DefaultModifiers, <<120>>, <<0, 1>>>>>>,
                             DefaultModifiers),
                  MakeSymbol("Type", ArrayName(NameInt, MaxCount), "array",
                             <<0, 1>>, MaxCount, <<>>, DefaultModifiers),
                  MakeSymbol("Type", NameE, "enum", Null, 0, <<>>,
                             DefaultModifiers),
                  MakeSymbol("Variable", NameInt, "", <<0, 1>>, 0, <<>>,
                             DefaultModifiers),
                  MakeSymbol("Type", NameS, "struct", Null, 0,
                             <<<<DefaultModifiers, <<121>>, <<0, 2>>>>>>,
                             DefaultModifiers),
                  MakeSymbol("Type", NameE, "struct", Null, 0, <<>>,
                             DefaultModifiers),
                  MakeSymbol("Variable", NameS, "", <<0, 1>>, 0, <<>>,
                             DefaultModifiers) >>,
      !.tabs = << BaseTable,
                  [ parent |-> <<s, 1>>, builtin |-> TRUE,
                    owned |-> <<<<s, 1>>, <<s, 2>>, <<s, 3>>>>,
                    refs |-> <<<<s, 1>>, <<s, 2>>, <<s, 3>>>>, nodes |-> <<>> ],
                  [ parent |-> <<s, 2>>, builtin |-> FALSE, owned |-> <<>>,
                    refs |-> <<>>, nodes |-> <<>> ],
                  [ parent |-> Null, builtin |-> FALSE, owned |-> <<<<s, 4>>>>,
                    refs |-> <<<<s, 4>>>>, nodes |-> <<>> ],
                  [ parent |-> Null, builtin |-> FALSE,
                    owned |-> <<<<s, 5>>, <<s, 6>>>>,
                    refs |-> <<<<s, 5>>, <<s, 6>>>>, nodes |-> <<>> ],
                  [ parent |-> Null, builtin |-> FALSE, owned |-> <<<<s, 7>>>>,
                    refs |-> <<<<s, 7>>>>, nodes |-> <<>> ] >> ]

\* the types an analyzer holds, and the tables it clones into
TypeIds(s) == {<<0, i>> : i \in 1..Len(BuiltinTypes)} \cup {<<s, i>> : i \in 1..3}
TableIds(s) == {<<s, t>> : t \in 1..6}

Request(fn, vals) == [fn |-> fn, vals |-> vals]

\* what an analyzer asks: one coercion cost; one compound type, twice; or
\* one or two clones
CoercionPlans ==
  {<<Request("coercionCost", <<a, b>>)>> : a \in Types, b \in Types}

CompoundPlans ==
  { <<Request("toCompound", <<b, c, r>>), Request("toCompound", <<b, c, r>>)>> :
      b \in Types, c \in 0..MaxShape, r \in 0..MaxShape }

\* the expressions an analyzer coerces: references to a function and to a
\* type, variables of every scalar, vector and matrix type, literals of the
\* two literal types and a call of a void function, at any offset
ValueTypes == {t \in Types : (isScalar(t) /\ ~t.isLiteral) \/ isVector(t) \/ isMatrix(t)}

CoercedExpressions ==
  UNION { {Expression("FunctionReference", fTypes.fInvalid, o, <<>>),
           Expression("TypeReference", fTypes.fInvalid, o, <<>>),
           Expression("IntLiteral", fTypes.fIntLiteral, o, <<>>),
           Expression("FloatLiteral", fTypes.fFloatLiteral, o, <<>>),
           Expression("FunctionCall", fTypes.fVoid, o, <<>>)}
          \cup {Expression("VariableReference", t, o, <<>>) : t \in ValueTypes} :
          o \in 1..MaxCount }

CoercePlans ==
  { <<Request("coerceExpression", <<t, e, allow>>)>> :
      t \in Types, e \in CoercedExpressions \cup {NoExpression}, allow \in BOOLEAN }

\* the integers an analyzer writes: the ends of the ranges of short, ushort,
\* int and uint, their neighbours, and 300
Integers64 ==
  { <<-32769, 65535>>, <<-32768, 0>>, <<-1, 32767>>, <<-1, 32768>>,
    <<-1, 65535>>, <<0, 0>>, <<0, 300>>, <<0, 32767>>, <<0, 32768>>,
    <<0, 65535>>, <<1, 0>>, <<32767, 65535>>, <<32768, 0>>,
    <<65535, 65535>>, <<65536, 0>> }

\* a slot of an integer value: a literal, or a subexpression that is not
\* constant
IntegerSlots == {Literal("IntLiteral", v) : v \in Integers64} \cup {NoExpression}

\* the constant values an analyzer checks: an int or an int2 of any slots, a
\* float, a float2 and a bool of literals
ConstantValues ==
  {Expression("Constructor", fTypes.fInt, 1, <<a>>) : a \in IntegerSlots}
  \cup {Expression("Constructor", fTypes.fInt2, 1, <<a, b>>) :
          a \in IntegerSlots, b \in IntegerSlots}
  \cup { Expression("FloatLiteral", fTypes.fFloat, 1,
                    <<Literal("FloatLiteral", <<65536, 0>>)>>),
         Expression("Constructor", fTypes.fFloat2, 1,
                    << Literal("FloatLiteral", <<65536, 0>>),
                       Literal("FloatLiteral", <<-32769, 0>>) >>),
         Expression("BoolLiteral", fTypes.fBool, 1,
                    <<Literal("BoolLiteral", <<0, 1>>)>>) }

\* the expressions an analyzer checks: a constant value, or a variable
\* declared with a scalar constant value, or with none
CheckedExpressions ==
  ConstantValues
  \cup {ReferenceTo(v.type, MaxCount, v) :
          v \in {c \in ConstantValues : slotCount(c.type) = 1}}
  \cup {ReferenceTo(fTypes.fInt, MaxCount, NoExpression)}

\* the types a value is checked against
CheckedTypes ==
  { fTypes.fShort, fTypes.fUShort, fTypes.fInt, fTypes.fUInt,
    fTypes.fIntLiteral, fTypes.fShort2, fTypes.fUInt2, fTypes.fFloat,
    fTypes.fHalf2, fTypes.fBool, fTypes.fFloat2x2 }

CheckPlans ==
  { <<Request("checkForOutOfRangeLiteral", <<t, e>>)>> :
      t \in CheckedTypes, e \in CheckedExpressions }

ClonePlans(s) ==
  LET one == {Request("clone", <<t, st>>) : t \in TypeIds(s), st \in TableIds(s)}
  IN  {<<r>> : r \in one} \cup {<<r1, r2>> : r1 \in one, r2 \in one}

\* one analyzer with one plan, in either build
InitTypes ==
  /\ skDebug \in BOOLEAN
  /\ \E p \in CoercionPlans \cup CompoundPlans \cup ClonePlans(1)
               \cup CoercePlans \cup CheckPlans :
       Holds([s \in Sessions |-> IF s = 1 THEN Analyzer(skDebug, s) ELSE Idle],
             [s \in Sessions |-> IF s = 1 THEN p ELSE <<>>])

\* the analyzer's next call is fn
Asks(s, fn) ==
  /\ status[s] = "running"
  /\ stack[s] = <<>>
  /\ plan[s] # <<>>
  /\ Head(plan[s]).fn = fn

\* the call ended in the state m of the compilation, logged entries and
\* reported errors
Answer(s, m, entries, errors) ==
  /\ status' = [status EXCEPT ![s] =
                  IF Running(m) /\ Tail(plan[s]) = <<>> THEN "done"
                  ELSE m.status]
  /\ syms' = [syms EXCEPT ![s] = m.syms]
  /\ tabs' = [tabs EXCEPT ![s] = m.tabs]
  /\ calls' = [calls EXCEPT ![s] = @ \o entries]
  /\ plan' = [plan EXCEPT ![s] = Tail(@)]
  /\ fErrors' = [fErrors EXCEPT ![s] = @ \o errors]
  /\ UNCHANGED <<skDebug, buf, fIP, fSymbolTable, fSymbols, stack, out, rtVars>>

\* the log entry of a call that returned res: with the symbols, the tables
\* and the reported errors as they were before the call
Logged(r, res, m) ==
  << [ fn |-> r.fn, vals |-> r.vals, res |-> res, syms |-> m.syms,
       tabs |-> m.tabs, errors |-> fErrors[m.self] ] >>

\* a call that never returns
Abort(m) == [m EXCEPT !.status = "aborted"]

CallCoercionCost(s) ==
  /\ Asks(s, "coercionCost")
  /\ LET r == Head(plan[s]) IN
       IF skDebug /\ NoColumns(r.vals[1], r.vals[2])
       THEN Answer(s, Abort(Session(s)), <<>>, <<>>)
       ELSE Answer(s, Session(s),
                   Logged(r, coercionCost(r.vals[1], r.vals[2]), Session(s)),
                   <<>>)

CallToCompound(s) ==
  /\ Asks(s, "toCompound")
  /\ LET r == Head(plan[s])
         t == toCompound(skDebug, r.vals[1], r.vals[2], r.vals[3])
     IN  IF t.fatal THEN Answer(s, Abort(Session(s)), <<>>, <<>>)
         ELSE Answer(s, Session(s), Logged(r, t.type, Session(s)), <<>>)

CallClone(s) ==
  /\ Asks(s, "clone")
  /\ LET r == Head(plan[s])
         c == clone(Session(s), r.vals[1], r.vals[2])
     IN  IF Running(c.m) THEN Answer(s, c.m, Logged(r, c.v, Session(s)), <<>>)
         ELSE Answer(s, c.m, <<>>, <<>>)

CallCoerceExpression(s) ==
  /\ Asks(s, "coerceExpression")
  /\ LET r == Head(plan[s])
         c == coerceExpression(skDebug, r.vals[1], r.vals[2], r.vals[3])
     IN  IF c.fatal THEN Answer(s, Abort(Session(s)), <<>>, <<>>)
         ELSE Answer(s, Session(s), Logged(r, c.v, Session(s)), c.errors)

CallCheckForOutOfRangeLiteral(s) ==
  /\ Asks(s, "checkForOutOfRangeLiteral")
  /\ LET r == Head(plan[s])
         c == checkForOutOfRangeLiteral(r.vals[1], r.vals[2])
     IN  Answer(s, Session(s), Logged(r, c.v, Session(s)), c.errors)

NextTypes ==
  \E s \in Sessions :
    \/ CallCoercionCost(s)
    \/ CallToCompound(s)
    \/ CallClone(s)
    \/ CallCoerceExpression(s)
    \/ CallCheckForOutOfRangeLiteral(s)

SpecTypes == InitTypes /\ [][NextTypes]_vars

(***************************************************************************)
(* SkRuntimeEffectThreaded: MaxThreads threads, started by the test one    *)
(* after another, each make an effect of the same source through the one   *)
(* compiler of the process, and the test joins them in the same order.     *)
(* threads[t].pc is where thread t is; threads[t].effect is the effect it  *)
(* got: 0 for none, otherwise the thread whose compilation the program     *)
(* came from.  compilerMutex is the thread that holds the mutex, 0 if      *)
(* none.  compiler.source is the thread whose source the compiler is       *)
(* converting, compiler.program how far it is.                             *)
(***************************************************************************)
\* the mutex can be acquired without a wait
AlwaysAvailable(mutex) == TRUE

\* SkMutex::acquire returns only when no thread holds the mutex
Available(mutex) == mutex = 0

At(t, pc) == threads[t].pc = pc

\* a step of the test leaves the compilations of the analyzers alone
Elsewhere ==
  UNCHANGED <<skDebug, status, buf, fIP, fSymbolTable, fSymbols, stack,
              syms, tabs, plan, out, calls, fErrors, mtlVars>>

Goto(t, pc) == threads' = [threads EXCEPT ![t].pc = pc] /\ Elsewhere

\* the thread is between the constructor and the destructor of its
\* SharedCompiler
InCompiler(t) == threads[t].pc \in {"convertProgram", "converting", "release"}

\* for (auto& thread : threads) thread = std::thread(...)
Spawn(t) ==
  /\ At(t, "idle")
  /\ \A u \in Threads : u < t => ~At(u, "idle")
  /\ Goto(t, "MakeForShader")
  /\ UNCHANGED <<compilerMutex, compiler>>

\* SharedCompiler compiler: takes the mutex and, the first time, creates
\* the compiler
Acquire(t) ==
  /\ At(t, "MakeForShader")
  /\ Available(compilerMutex)
  /\ compilerMutex' = t
  /\ compiler' = [compiler EXCEPT !.gImpl = TRUE]
  /\ Goto(t, "convertProgram")

\* compiler->convertProgram(...), begun: the compiler holds the source of
\* this thread and the program parsed from it
StartConvert(t) ==
  /\ At(t, "convertProgram")
  /\ compiler' = [compiler EXCEPT !.source = t, !.program = 1]
  /\ Goto(t, "converting")
  /\ UNCHANGED compilerMutex

\* the programs convertProgram can return: the thread's own if the compiler
\* still holds what the thread left in it; otherwise the read races with
\* another thread's write, and the program is null or another thread's
Programs(t) ==
  IF compiler.gImpl /\ compiler.source = t /\ compiler.program = 1
  THEN {t}
  ELSE {0, compiler.source}

\* compiler->convertProgram(...), ended: the program is the thread's own,
\* the effect is made of it, and the compiler is left empty
FinishConvert(t) ==
  /\ At(t, "converting")
  /\ \E program \in Programs(t) :
       threads' = [threads EXCEPT ![t] = [pc |-> "release", effect |-> program]]
  /\ Elsewhere
  /\ compiler' = [compiler EXCEPT !.source = 0, !.program = 0]
  /\ UNCHANGED compilerMutex

\* ~SharedCompiler releases the mutex
Release(t) ==
  /\ At(t, "release")
  /\ compilerMutex' = 0
  /\ Goto(t, "REPORTER_ASSERT")
  /\ UNCHANGED compiler

\* REPORTER_ASSERT(r, effect), and the end of the thread
ReporterAssert(t) ==
  /\ At(t, "REPORTER_ASSERT")
  /\ Goto(t, "done")
  /\ UNCHANGED <<compilerMutex, compiler>>

\* for (auto& thread : threads) thread.join()
Join(t) ==
  /\ \A u \in Threads : ~At(u, "idle")
  /\ \A u \in Threads : u < t => At(u, "joined")
  /\ At(t, "done")
  /\ Goto(t, "joined")
  /\ UNCHANGED <<compilerMutex, compiler>>

\* the test, in either build, with no compilation of its own
InitThreads ==
  /\ skDebug \in BOOLEAN
  /\ Holds([s \in Sessions |-> Idle], [s \in Sessions |-> <<>>])

\* a step of the test's own thread
TestStep == \E t \in Threads : Spawn(t) \/ Join(t)

\* a step of thread t
ThreadStep(t) ==
  \/ Acquire(t)
  \/ StartConvert(t)
  \/ FinishConvert(t)
  \/ Release(t)
  \/ ReporterAssert(t)

NextThreads ==
  \E t \in Threads :
    \/ Spawn(t)
    \/ Acquire(t)
    \/ StartConvert(t)
    \/ FinishConvert(t)
    \/ Release(t)
    \/ ReporterAssert(t)
    \/ Join(t)

\* every thread that can run does run: a thread waits only for the mutex,
\* which its holder releases
SpecThreads ==
  /\ InitThreads
  /\ [][NextThreads]_vars
  /\ WF_vars(TestStep)
  /\ \A t \in Threads : WF_vars(ThreadStep(t))

(***************************************************************************)
(* The two records of modifiers(): streams whose module table owns three   *)
(* variables of type int, the first with its modifiers in the 8-bit        *)
(* record, the second with the same layout and the same flags in the full  *)
(* record, the third with the default record.                              *)
(***************************************************************************)
\* the flag values that fit in one byte
FlagValues == 0..255

\* the layout records of the streams
LayoutRecords ==
  { Enc("kDefaultLayout", <<>>),
    Enc("kBuiltinLayout", <<E16(0 - 1)>>),
    Enc("kBuiltinLayout", <<E16(15)>>),
    Enc("kLayout",
        << E32(0 - 1), E8(1), E8(2), E8(3), E8(4), E8(5), E16(0 - 6), E8(7),
           E8(8), E8(9), E8(10), Str(Names.S), E8(0 - 1) >>),
    Enc("kLayout",
        << E32(65536), E8(0 - 1), E8(0), E8(0 - 1), E8(0 - 1), E8(0), E16(300),
           E8(0 - 1), E8(0 - 1), E8(0 - 1), E8(0 - 1), Str(Names.f), E8(0) >>) }

ModifiersStream(l, flags) ==
  Stream(Table(<< Enc("kVariable",
                      << E16(0), Enc("kModifiers8Bit", <<l, E8(flags)>>),
                         Str(Names.v), SystemType(1, Names.int), E8(0) >>),
                  Enc("kVariable",
                      << E16(2), Enc("kModifiers", <<l, E32(flags)>>),
                         Str(Names.f), Ref(1), E8(0) >>),
                  Variable(3, Names.A, Ref(1)) >>,
               <<>>),
         <<>>)

ModifiersStreams ==
  {ModifiersStream(l, flags) : l \in LayoutRecords, flags \in FlagValues}

\* one session over one of these streams, in either build
InitModifiers ==
  /\ skDebug \in BOOLEAN
  /\ \E b \in ModifiersStreams :
       Holds([s \in Sessions |-> IF s = 1 THEN Rehydrator(skDebug, s, b) ELSE Idle],
             [s \in Sessions |-> IF s = 1 THEN ClientPlan ELSE <<>>])

\* the decode functions these streams reach
NextModifiers ==
  \E s \in Sessions :
    \/ Call(s)
    \/ symbolTable(s)
    \/ layout(s)
    \/ modifiers(s)
    \/ symbol(s)
    \/ type(s)
    \/ elements(s)
    \/ element(s)

SpecModifiers == InitModifiers /\ [][NextModifiers]_vars

(***************************************************************************)
(* GrMtlCommandBuffer.  An encoder is its position in `encoders`, the      *)
(* sequence of the encoders the MTLCommandBuffer made; encoders[e].ended   *)
(* says that endEncoding was called on it.  The operators map the members  *)
(* of the command buffer, as a record c, to the members after the call.    *)
(***************************************************************************)
MaxEncoders == 3

\* the members of the command buffer
CommandBuffer ==
  [ fActiveBlitCommandEncoder |-> fActiveBlitCommandEncoder,
    fActiveRenderCommandEncoder |-> fActiveRenderCommandEncoder,
    fPreviousRenderPassDescriptor |-> fPreviousRenderPassDescriptor,
    fHasWork |-> fHasWork,
    encoders |-> encoders ]

\* an MTLRenderPassAttachmentDescriptor
Attachment(texture, loadAction, storeAction) ==
  [texture |-> texture, loadAction |-> loadAction, storeAction |-> storeAction]

\* an MTLRenderPassDescriptor with one colour attachment
Descriptor(color, stencil) ==
  [isNil |-> FALSE, colorAttachments |-> <<color>>, stencilAttachment |-> stencil]

\* the descriptors of the render passes: a colour attachment over one of two
\* textures, and a stencil attachment over a texture or over none
Descriptors ==
  { Descriptor(Attachment(t, l, s), stencil) :
      t \in {1, 2}, l \in {"Load", "Clear"},
      s \in {"Store", "MultisampleResolve"},
      stencil \in { Attachment(nil, "DontCare", "DontCare"),
                    Attachment(3, "Load", "Store"),
                    Attachment(3, "Clear", "Store") } }

\* no pipeline state, one that samples nothing, one that samples texture 1
PipelineStates ==
  { [isNil |-> TRUE, samples |-> {}], [isNil |-> FALSE, samples |-> {}],
    [isNil |-> FALSE, samples |-> {1}] }

\* GrMtlPipelineState::doesntSampleAttachment
doesntSampleAttachment(pipelineState, attachment) ==
  attachment.texture \notin pipelineState.samples

\* static bool compatible(first, second, pipelineState)
compatible(first, second, pipelineState) ==
  LET renderTargetsMatch == first.texture = second.texture
      storeActionsValid == first.storeAction \in {"Store", "DontCare"}
      loadActionsValid == second.loadAction \in {"Load", "DontCare"}
      secondDoesntSampleFirst ==
        /\ pipelineState.isNil \/ doesntSampleAttachment(pipelineState, first)
        /\ second.storeAction # "MultisampleResolve"
  IN  /\ renderTargetsMatch
      /\ \/ first.texture = nil
         \/ storeActionsValid /\ loadActionsValid /\ secondDoesntSampleFirst

\* [encoder endEncoding]
endEncoding(c, e) == [c EXCEPT !.encoders[e].ended = TRUE]

\* an endAllEncoding() that ends the render command encoder only
endRenderEncoding(c) ==
  IF c.fActiveRenderCommandEncoder # nil
  THEN [endEncoding(c, c.fActiveRenderCommandEncoder)
          EXCEPT !.fActiveRenderCommandEncoder = nil,
                 !.fPreviousRenderPassDescriptor = NilDescriptor]
  ELSE c

\* an endAllEncoding() that keeps the previous render pass descriptor
endAllEncodingKeepingTheDescriptor(c) ==
  LET r == IF c.fActiveRenderCommandEncoder # nil
           THEN [endEncoding(c, c.fActiveRenderCommandEncoder)
                   EXCEPT !.fActiveRenderCommandEncoder = nil]
           ELSE c
  IN  IF r.fActiveBlitCommandEncoder # nil
      THEN [endEncoding(r, r.fActiveBlitCommandEncoder)
              EXCEPT !.fActiveBlitCommandEncoder = nil]
      ELSE r

\* void GrMtlCommandBuffer::endAllEncoding()
endAllEncoding(c) ==
  LET r == IF c.fActiveRenderCommandEncoder # nil
           THEN [endEncoding(c, c.fActiveRenderCommandEncoder)
                   EXCEPT !.fActiveRenderCommandEncoder = nil,
                          !.fPreviousRenderPassDescriptor = NilDescriptor]
           ELSE c
  IN  IF r.fActiveBlitCommandEncoder # nil
      THEN [endEncoding(r, r.fActiveBlitCommandEncoder)
              EXCEPT !.fActiveBlitCommandEncoder = nil]
      ELSE r

\* [fCmdBuffer blitCommandEncoder] and [fCmdBuffer
\* renderCommandEncoderWithDescriptor:]: a new encoder
NewEncoder(c, kind) ==
  [c EXCEPT !.encoders = Append(@, [kind |-> kind, ended |-> FALSE])]

\* id<MTLBlitCommandEncoder> GrMtlCommandBuffer::getBlitCommandEncoder()
getBlitCommandEncoder(c) ==
  IF c.fActiveBlitCommandEncoder # nil
  THEN [c |-> c, v |-> c.fActiveBlitCommandEncoder]
  ELSE LET e == NewEncoder(endAllEncoding(c), "blit") IN
       [ c |-> [e EXCEPT !.fActiveBlitCommandEncoder = Len(e.encoders),
                         !.fHasWork = TRUE],
         v |-> Len(e.encoders) ]

\* GrMtlRenderCommandEncoder* GrMtlCommandBuffer::getRenderCommandEncoder(
\* descriptor, pipelineState, opsRenderPass)
getRenderCommandEncoder(c, descriptor, pipelineState) ==
  IF /\ c.fPreviousRenderPassDescriptor # NilDescriptor
     /\ compatible(c.fPreviousRenderPassDescriptor.colorAttachments[1],
                   descriptor.colorAttachments[1], pipelineState)
     /\ compatible(c.fPreviousRenderPassDescriptor.stencilAttachment,
                   descriptor.stencilAttachment, pipelineState)
  THEN [c |-> c, v |-> c.fActiveRenderCommandEncoder]
  ELSE LET e == NewEncoder(endAllEncoding(c), "render") IN
       [ c |-> [e EXCEPT !.fActiveRenderCommandEncoder = Len(e.encoders),
                         !.fPreviousRenderPassDescriptor = descriptor,
                         !.fHasWork = TRUE],
         v |-> Len(e.encoders) ]

\* a call left the members c
Becomes(c) ==
  /\ fActiveBlitCommandEncoder' = c.fActiveBlitCommandEncoder
  /\ fActiveRenderCommandEncoder' = c.fActiveRenderCommandEncoder
  /\ fPreviousRenderPassDescriptor' = c.fPreviousRenderPassDescriptor
  /\ fHasWork' = c.fHasWork
  /\ encoders' = c.encoders
  /\ UNCHANGED <<skDebug, status, buf, fIP, fSymbolTable, fSymbols, stack,
                 syms, tabs, plan, out, calls, fErrors, threads,
                 compilerMutex, compiler>>

\* the call op with the arguments args returned v
ReturnsFrom(op, args, v) == returned' = [op |-> op, args |-> args, v |-> v]

\* the MTLCommandBuffer makes at most MaxEncoders encoders
CanEncode == Len(encoders) < MaxEncoders

GetBlitCommandEncoder ==
  /\ CanEncode
  /\ LET r == getBlitCommandEncoder(CommandBuffer)
     IN  Becomes(r.c) /\ ReturnsFrom("getBlitCommandEncoder", <<>>, r.v)

GetRenderCommandEncoder ==
  /\ CanEncode
  /\ \E descriptor \in Descriptors, pipelineState \in PipelineStates :
       LET r == getRenderCommandEncoder(CommandBuffer, descriptor, pipelineState)
       IN  Becomes(r.c) /\ ReturnsFrom("getRenderCommandEncoder", <<descriptor, pipelineState>>, r.v)

\* bool GrMtlCommandBuffer::commit(bool waitUntilCompleted): the status of
\* the MTLCommandBuffer is an error (0), or is not (1)
Commit ==
  /\ Becomes(endAllEncoding(CommandBuffer))
  /\ \E ok \in {0, 1} : ReturnsFrom("commit", <<>>, ok)

EndAllEncoding ==
  /\ Becomes(endAllEncoding(CommandBuffer))
  /\ ReturnsFrom("endAllEncoding", <<>>, nil)

\* void GrMtlCommandBuffer::encodeSignalEvent(event, eventValue)
EncodeSignalEvent ==
  /\ Becomes([endAllEncoding(CommandBuffer) EXCEPT !.fHasWork = TRUE])
  /\ ReturnsFrom("encodeSignalEvent", <<>>, nil)

\* void GrMtlCommandBuffer::encodeWaitForEvent(event, eventValue)
EncodeWaitForEvent ==
  /\ Becomes([endAllEncoding(CommandBuffer) EXCEPT !.fHasWork = TRUE])
  /\ ReturnsFrom("encodeWaitForEvent", <<>>, nil)

\* a new command buffer, in either build, with no compilation going on
InitCommandBuffer ==
  /\ skDebug \in BOOLEAN
  /\ Holds([s \in Sessions |-> Idle], [s \in Sessions |-> <<>>])

NextCommandBuffer ==
  \/ GetBlitCommandEncoder
  \/ GetRenderCommandEncoder
  \/ Commit
  \/ EndAllEncoding
  \/ EncodeSignalEvent
  \/ EncodeWaitForEvent

SpecCommandBuffer == InitCommandBuffer /\ [][NextCommandBuffer]_vars

(***************************************************************************)
(* GrMtlPipelineStateBuilder: the pipeline data that finalize() writes     *)
(* for the persistent cache and read_pipeline_data() reads back, the       *)
(* decision to store the shaders, and buffer_size().                       *)
(*                                                                         *)
(* A buffer is a sequence of 32-bit words.  An enumerator is written as    *)
(* its number, which is its place in the list of the enumerators; a cast   *)
(* of a number that is no enumerator gives "Unknown".                      *)
(***************************************************************************)
MaxAttributes == 2      \* attributes of one kind in a geometry processor
MaxOffset == 20         \* offsets given to buffer_size
MaxAlignment == 8       \* alignment masks given to buffer_size

kLastUniformBinding == 0

MTLVertexFormats == <<"Invalid", "Float2", "Float3", "UChar4Normalized">>
MTLBlendFactors == <<"Zero", "One", "SourceAlpha", "OneMinusSourceAlpha">>
MTLBlendOperations == <<"Add", "Subtract", "ReverseSubtract">>
MTLPixelFormats == <<"Invalid", "RGBA8Unorm", "BGRA8Unorm", "Stencil8">>

\* the number of an enumerator, and the enumerator of a number
Ord(enum, name) == (CHOOSE i \in DOMAIN enum : enum[i] = name) - 1
Cast(enum, w) == IF w + 1 \in DOMAIN enum THEN enum[w + 1] ELSE "Unknown"

\* SkBinaryWriteBuffer: no writer (a null pointer), or the words written
NoWriter == [on |-> FALSE, words |-> <<>>]
NewWriter == [on |-> TRUE, words |-> <<>>]
writeInt(writer, v) ==
  IF writer.on THEN [writer EXCEPT !.words = Append(@, v)] ELSE writer
writeUInt(writer, v) == writeInt(writer, v)
writeBool(writer, b) == writeInt(writer, IF b THEN 1 ELSE 0)

\* SkReadBuffer: a read past the end gives 0 and makes the reader invalid
NewReader(words) == [words |-> words, at |-> 0, valid |-> TRUE]
readInt(reader) ==
  IF reader.valid /\ reader.at < Len(reader.words)
  THEN [v |-> reader.words[reader.at + 1],
        reader |-> [reader EXCEPT !.at = @ + 1]]
  ELSE [v |-> 0, reader |-> [reader EXCEPT !.valid = FALSE]]
readUInt(reader) == readInt(reader)
readBool(reader) ==
  LET r == readInt(reader) IN [v |-> r.v # 0, reader |-> r.reader]

attribute_type_to_mtlformat(cpuType) ==
  CASE cpuType = "kFloat2" -> "Float2"
    [] cpuType = "kFloat3" -> "Float3"
    [] cpuType = "kUByte4_norm" -> "UChar4Normalized"
    [] OTHER -> "Invalid"

blend_coeff_to_mtl_blend(coeff) ==
  CASE coeff = "kZero" -> "Zero"
    [] coeff = "kOne" -> "One"
    [] coeff = "kSA" -> "SourceAlpha"
    [] coeff = "kISA" -> "OneMinusSourceAlpha"
    [] OTHER -> "Zero"

blend_equation_to_mtl_blend_op(equation) ==
  CASE equation = "kAdd" -> "Add"
    [] equation = "kSubtract" -> "Subtract"
    [] equation = "kReverseSubtract" -> "ReverseSubtract"

\* layouts[binding] = layout of an MTLVertexDescriptor
SetLayout(layouts, binding, stepFunction, stride) ==
  {l \in layouts : l.binding # binding}
    \cup {[binding |-> binding, stepFunction |-> stepFunction, stepRate |-> 1,
           stride |-> stride]}

\* one of the two loops of create_vertex_descriptor over the attributes
\* from the i-th on: the attribute descriptors, the offset reached and the
\* writer
RECURSIVE WriteAttributes(_, _, _, _, _)
WriteAttributes(attributes, i, offset, binding, writer) ==
  IF i > Len(attributes)
  THEN [attributes |-> <<>>, offset |-> offset, writer |-> writer]
  ELSE LET format == attribute_type_to_mtlformat(attributes[i].cpuType)
           w == writeUInt(writeUInt(writeInt(writer,
                                             Ord(MTLVertexFormats, format)),
                                    offset),
                          binding)
           rest == WriteAttributes(attributes, i + 1,
                                   offset + attributes[i].sizeAlign4, binding, w)
       IN  [rest EXCEPT !.attributes =
              <<[format |-> format, offset |-> offset,
                 bufferIndex |-> binding]>> \o @]

create_vertex_descriptor(geomProc, writer) ==
  LET hasVertexAttributes == geomProc.vertexAttributes # <<>>
      hasInstanceAttributes == geomProc.instanceAttributes # <<>>
      nextBinding == kLastUniformBinding + 1
      vertexBinding == IF hasVertexAttributes THEN nextBinding ELSE 0
      instanceBinding ==
        IF ~hasInstanceAttributes THEN 0
        ELSE IF hasVertexAttributes THEN nextBinding + 1 ELSE nextBinding
      w1 == writeUInt(writeUInt(writer, vertexBinding), instanceBinding)
      vertexAttributeCount == Len(geomProc.vertexAttributes)
      w2 == writeInt(w1, vertexAttributeCount)
      vertex == WriteAttributes(geomProc.vertexAttributes, 1, 0, vertexBinding, w2)
      w3 == IF vertexAttributeCount # 0
            THEN writeUInt(vertex.writer, vertex.offset) ELSE vertex.writer
      layouts1 == IF vertexAttributeCount # 0
                  THEN SetLayout({}, vertexBinding, "PerVertex", vertex.offset)
                  ELSE {}
      instanceAttributeCount == Len(geomProc.instanceAttributes)
      w4 == writeInt(w3, instanceAttributeCount)
      instance == WriteAttributes(geomProc.instanceAttributes, 1, 0,
                                  instanceBinding, w4)
      w5 == IF instanceAttributeCount # 0
            THEN writeUInt(instance.writer, instance.offset) ELSE instance.writer
      layouts2 == IF instanceAttributeCount # 0
                  THEN SetLayout(layouts1, instanceBinding, "PerInstance",
                                 instance.offset)
                  ELSE layouts1
  IN  [ v |-> [attributes |-> vertex.attributes \o instance.attributes,
               layouts |-> layouts2],
        writer |-> w5 ]

create_color_attachment(format, blendInfo, writer) ==
  LET w1 == writeInt(writer, Ord(MTLPixelFormats, format))
      blendOn == ~blendInfo.shouldDisable
      w2 == writeBool(w1, blendOn)
      src == blend_coeff_to_mtl_blend(blendInfo.fSrcBlend)
      dst == blend_coeff_to_mtl_blend(blendInfo.fDstBlend)
      op == blend_equation_to_mtl_blend_op(blendInfo.fEquation)
      blend == << src, dst, op, src, dst, op >>
      w3 == IF blendOn
            THEN [w2 EXCEPT !.words =
                    IF w2.on
                    THEN @ \o << Ord(MTLBlendFactors, src),
                                 Ord(MTLBlendFactors, dst),
                                 Ord(MTLBlendOperations, op),
                                 Ord(MTLBlendFactors, src),
                                 Ord(MTLBlendFactors, dst),
                                 Ord(MTLBlendOperations, op) >>
                    ELSE @]
            ELSE w2
      w4 == writeBool(w3, blendInfo.fWriteColor)
  IN  [ v |-> [pixelFormat |-> format, blendingEnabled |-> blendOn,
               blend |-> IF blendOn THEN blend ELSE <<>>,
               writeMask |-> IF blendInfo.fWriteColor THEN "All" ELSE "None"],
        writer |-> w4 ]

\* the stride of a layout, read when the attribute count is not zero only
ReadStrideAlways(reader, count) == readUInt(reader)

ReadStride(reader, count) ==
  IF count # 0 THEN readUInt(reader) ELSE [v |-> 0, reader |-> reader]

\* one of the two loops of read_pipeline_data over count attributes
RECURSIVE ReadAttributes(_, _)
ReadAttributes(reader, count) ==
  IF count <= 0 THEN [attributes |-> <<>>, reader |-> reader]
  ELSE LET format == readInt(reader)
           offset == readUInt(format.reader)
           bufferIndex == readUInt(offset.reader)
           rest == ReadAttributes(bufferIndex.reader, count - 1)
       IN  [rest EXCEPT !.attributes =
              <<[format |-> Cast(MTLVertexFormats, format.v),
                 offset |-> offset.v, bufferIndex |-> bufferIndex.v]>> \o @]

\* the six blend fields of the colour attachment
ReadBlend(reader) ==
  LET srcRGB == readInt(reader)
      dstRGB == readInt(srcRGB.reader)
      rgbOp == readInt(dstRGB.reader)
      srcAlpha == readInt(rgbOp.reader)
      dstAlpha == readInt(srcAlpha.reader)
      alphaOp == readInt(dstAlpha.reader)
  IN  [ v |-> << Cast(MTLBlendFactors, srcRGB.v),
                 Cast(MTLBlendFactors, dstRGB.v),
                 Cast(MTLBlendOperations, rgbOp.v),
                 Cast(MTLBlendFactors, srcAlpha.v),
                 Cast(MTLBlendFactors, dstAlpha.v),
                 Cast(MTLBlendOperations, alphaOp.v) >>,
        reader |-> alphaOp.reader ]

read_pipeline_data(reader) ==
  LET vertexBinding == readUInt(reader)
      instanceBinding == readUInt(vertexBinding.reader)
      vertexAttributeCount == readInt(instanceBinding.reader)
      vertex == ReadAttributes(vertexAttributeCount.reader, vertexAttributeCount.v)
      vertexStride == ReadStride(vertex.reader, vertexAttributeCount.v)
      layouts1 == IF vertexAttributeCount.v # 0
                  THEN SetLayout({}, vertexBinding.v, "PerVertex", vertexStride.v)
                  ELSE {}
      instanceAttributeCount == readInt(vertexStride.reader)
      instance == ReadAttributes(instanceAttributeCount.reader,
                                 instanceAttributeCount.v)
      instanceStride == ReadStride(instance.reader, instanceAttributeCount.v)
      layouts2 == IF instanceAttributeCount.v # 0
                  THEN SetLayout(layouts1, instanceBinding.v, "PerInstance",
                                 instanceStride.v)
                  ELSE layouts1
      pixelFormat == readInt(instanceStride.reader)
      blendingEnabled == readBool(pixelFormat.reader)
      blend == IF blendingEnabled.v THEN ReadBlend(blendingEnabled.reader)
               ELSE [v |-> <<>>, reader |-> blendingEnabled.reader]
      writeColor == readBool(blend.reader)
      stencil == readInt(writeColor.reader)
  IN  [ v |-> [ vertexDescriptor |->
                  [attributes |-> vertex.attributes \o instance.attributes,
                   layouts |-> layouts2],
                colorAttachment |->
                  [pixelFormat |-> Cast(MTLPixelFormats, pixelFormat.v),
                   blendingEnabled |-> blendingEnabled.v,
                   blend |-> blend.v,
                   writeMask |-> IF writeColor.v THEN "All" ELSE "None"],
                stencilAttachmentPixelFormat |->
                  Cast(MTLPixelFormats, stencil.v) ],
        reader |-> stencil.reader ]

\* GrPersistentCache::store as storeShadersInCache calls it: the stores of
\* one finalize(), in order
storeShadersInCache(stores, shaders, pipelineData, isSkSL) ==
  Append(stores, [tag |-> IF isSkSL THEN "SKSL" ELSE "MSL", shaders |-> shaders,
                  pipelineData |-> pipelineData])

\* the cached data finalize() works with: what the persistent cache holds
\* for the key when there is a cache and there are no precompiled libraries
LoadNothing(in) == "nothing"

LoadCached(in) ==
  IF in.persistentCache /\ ~in.precompiledLibs THEN in.load ELSE "nothing"

ShaderTypes == {"kVertex", "kFragment"}

\* finalize(): the pipeline state or nullptr, the stores made in the
\* persistent cache and the pipeline descriptor as far as it was set up.
\* in.msl are the shaders the cached MSL unpacks to, in.unpacks whether the
\* cached SkSL unpacks, in.converts the shaders GrSkSLToMSL succeeds for,
\* in.compiles whether both libraries compile and in.creates whether the
\* functions and the pipeline state are created.
finalize(in) ==
  LET persistentCache == in.persistentCache
      cached == LoadCached(in)
      writer == IF persistentCache /\ cached = "nothing" THEN NewWriter
                ELSE NoWriter
      vertexDescriptor == create_vertex_descriptor(in.geomProc, writer)
      colorAttachment ==
        create_color_attachment(in.pixelFormat, in.blendInfo,
                                vertexDescriptor.writer)
      written == writeInt(colorAttachment.writer,
                          Ord(MTLPixelFormats, in.stencil))
      descriptor == [ vertexDescriptor |-> vertexDescriptor.v,
                      colorAttachment |-> colorAttachment.v,
                      stencilAttachmentPixelFormat |-> in.stencil ]
      Null0 == [v |-> "nullptr", stores |-> <<>>, descriptor |-> descriptor]
      converted == \A t \in ShaderTypes : t \in in.converts
      \* the shaders in msl[] after the switch on the type of the cached data
      msl == IF cached = "MSL" THEN in.msl
             ELSE IF cached = "SKSL" /\ in.unpacks THEN ShaderTypes
             ELSE {}
      \* the conversions of the block for shaders still empty
      success == /\ ("kVertex" \notin msl => "kVertex" \in in.converts)
                 /\ ("kFragment" \notin msl => "kFragment" \in in.converts)
      stores ==
        IF msl # ShaderTypes /\ persistentCache /\ cached = "nothing"
        THEN storeShadersInCache(<<>>,
                                 IF in.strategy = "kSkSL" THEN "sksl" ELSE "msl",
                                 written.words, in.strategy = "kSkSL")
        ELSE <<>>
  IN  IF in.pixelFormat = "Invalid" THEN Null0
      ELSE IF in.precompiledLibs
      THEN [Null0 EXCEPT !.v = IF in.creates THEN "GrMtlPipelineState"
                               ELSE "nullptr"]
      ELSE IF cached = "SKSL" /\ in.unpacks /\ ~converted THEN Null0
      ELSE IF msl # ShaderTypes /\ ~success THEN Null0
      ELSE [Null0 EXCEPT !.stores = stores,
                         !.v = IF in.compiles /\ in.creates
                               THEN "GrMtlPipelineState" ELSE "nullptr"]

\* offset & maxAlignment on unsigned integers
RECURSIVE BitAnd(_, _)
BitAnd(a, b) ==
  IF a = 0 \/ b = 0 THEN 0
  ELSE (a % 2) * (b % 2) + 2 * BitAnd(a \div 2, b \div 2)

bufferSizeRoundedDown(offset, maxAlignment) ==
  offset - BitAnd(offset, maxAlignment)

\* the offsets and alignments given are far below 2^32: no sum wraps
buffer_size(offset, maxAlignment) ==
  LET offsetDiff == BitAnd(offset, maxAlignment)
  IN  offset + (IF offsetDiff # 0 THEN maxAlignment - offsetDiff + 1 ELSE 0)

\* the geometry processors, blend infos and formats of the programs
Attributes ==
  { [cpuType |-> "kFloat2", sizeAlign4 |-> 8],
    [cpuType |-> "kFloat3", sizeAlign4 |-> 12],
    [cpuType |-> "kUByte4_norm", sizeAlign4 |-> 4] }

AttributeLists ==
  UNION {[1..n -> Attributes] : n \in 0..MaxAttributes}

GeometryProcessors ==
  [vertexAttributes : AttributeLists, instanceAttributes : AttributeLists]

BlendInfos ==
  { [fEquation |-> e[1], fSrcBlend |-> e[2], fDstBlend |-> e[3],
     shouldDisable |-> e[4], fWriteColor |-> c] :
      e \in { <<"kAdd", "kOne", "kZero", TRUE>>,
              <<"kAdd", "kSA", "kISA", FALSE>>,
              <<"kReverseSubtract", "kOne", "kZero", FALSE>>,
              <<"kSubtract", "kOne", "kOne", FALSE>> },
      c \in BOOLEAN }

\* what the persistent cache holds for the key
CacheLoads ==
  {[load |-> "nothing", msl |-> {}, unpacks |-> FALSE]}
    \cup {[load |-> "MSL", msl |-> m, unpacks |-> m # {}] :
            m \in {{}, {"kVertex"}, ShaderTypes}}
    \cup {[load |-> "SKSL", msl |-> {}, unpacks |-> u] : u \in BOOLEAN}
    \cup {[load |-> "other", msl |-> {}, unpacks |-> FALSE]}

Program(geomProc, blendInfo, pixelFormat, stencil) ==
  [geomProc |-> geomProc, blendInfo |-> blendInfo, pixelFormat |-> pixelFormat,
   stencil |-> stencil]

\* the input of one finalize(): a program, the cache and what the
\* conversions and the device do
FinalizeInput(program, persistentCache, precompiledLibs, c, converts, strategy,
              compiles, creates) ==
  [ geomProc |-> program.geomProc, blendInfo |-> program.blendInfo,
    pixelFormat |-> program.pixelFormat, stencil |-> program.stencil,
    persistentCache |-> persistentCache, precompiledLibs |-> precompiledLibs,
    load |-> c.load, msl |-> c.msl, unpacks |-> c.unpacks,
    converts |-> converts, strategy |-> strategy, compiles |-> compiles,
    creates |-> creates ]

\* one program with every cache and every outcome of the conversions
OneProgram ==
  Program([vertexAttributes |-> <<[cpuType |-> "kFloat2", sizeAlign4 |-> 8]>>,
           instanceAttributes |-> <<>>],
          [fEquation |-> "kAdd", fSrcBlend |-> "kSA", fDstBlend |-> "kISA",
           shouldDisable |-> FALSE, fWriteColor |-> TRUE],
          "RGBA8Unorm", "Stencil8")

FinalizePlans ==
  { <<Request("finalize",
              <<FinalizeInput([OneProgram EXCEPT !.pixelFormat = f], pc, pre, c,
                              cv, st, cm, cr)>>)>> :
      f \in {"Invalid", "RGBA8Unorm"}, pc \in BOOLEAN, pre \in BOOLEAN,
      c \in CacheLoads, cv \in SUBSET ShaderTypes,
      st \in {"kSkSL", "kBackendSource"}, cm \in BOOLEAN, cr \in {TRUE} }
  \cup
  { <<Request("finalize",
              <<FinalizeInput(OneProgram, pc, pre, c, ShaderTypes, "kSkSL",
                              TRUE, FALSE)>>)>> :
      pc \in BOOLEAN, pre \in BOOLEAN, c \in CacheLoads }

\* every program, stored by a finalize() with an empty cache and read back
\* by a precompile
PrecompilePlans ==
  { << Request("finalize",
               <<FinalizeInput(Program(g, b, f, s), TRUE, FALSE,
                               [load |-> "nothing", msl |-> {},
                                unpacks |-> FALSE],
                               ShaderTypes, "kBackendSource", TRUE, TRUE)>>),
       Request("read_pipeline_data", <<>>) >> :
      g \in GeometryProcessors, b \in BlendInfos,
      f \in {"RGBA8Unorm", "BGRA8Unorm"}, s \in {"Invalid", "Stencil8"} }

BufferSizePlans ==
  { <<Request("buffer_size", <<offset, maxAlignment>>)>> :
      offset \in 0..MaxOffset, maxAlignment \in 0..MaxAlignment }

InitMtl ==
  /\ skDebug \in BOOLEAN
  /\ \E p \in FinalizePlans \cup PrecompilePlans \cup BufferSizePlans :
       Holds([s \in Sessions |->
                IF s = 1 THEN [Idle EXCEPT !.dbg = skDebug, !.self = s,
                                           !.status = "running"]
                ELSE Idle],
             [s \in Sessions |-> IF s = 1 THEN p ELSE <<>>])

CallFinalize(s) ==
  /\ Asks(s, "finalize")
  /\ LET r == Head(plan[s])
     IN  Answer(s, Session(s), Logged(r, finalize(r.vals[1]), Session(s)), <<>>)

\* PrecompileShaders reads the pipeline data of the shaders stored last
CallReadPipelineData(s) ==
  /\ Asks(s, "read_pipeline_data")
  /\ LET r == Head(plan[s])
         last == calls[s][Len(calls[s])]
     IN  IF calls[s] # <<>> /\ last.fn = "finalize" /\ last.res.stores # <<>>
         THEN LET data == last.res.stores[1].pipelineData
                  d == read_pipeline_data(NewReader(data))
              IN  Answer(s, Session(s),
                         Logged(Request(r.fn, <<data>>), d, Session(s)), <<>>)
         ELSE Answer(s, Session(s), <<>>, <<>>)

CallBufferSize(s) ==
  /\ Asks(s, "buffer_size")
  /\ LET r == Head(plan[s])
     IN  Answer(s, Session(s),
                Logged(r, buffer_size(r.vals[1], r.vals[2]), Session(s)), <<>>)

NextMtl ==
  \E s \in Sessions :
    \/ CallFinalize(s)
    \/ CallReadPipelineData(s)
    \/ CallBufferSize(s)

SpecMtl == InitMtl /\ [][NextMtl]_vars
(***************************************************************************)
(* Properties of the Rehydrator.                                           *)
(*                                                                         *)
(* A decode call that returns is recorded as the last call of its session. *)
(* A step ends where a call returns, so in the state after the step the    *)
(* registry, the cursor and the tables are as the call left them.          *)
(***************************************************************************)
Live(s) == status[s] \in {"running", "done"}

LastCall(s) == calls[s][Len(calls[s])]

\* the last step of session s was the return of a call: the caller has taken
\* the value, where the frame of a call that was just made is at its first
\* item
AtReturn(s) ==
  /\ Live(s)
  /\ calls[s] # <<>>
  /\ stack[s] = <<>> \/ stack[s][Len(stack[s])].pc > 1

\* the call that just returned was a call of the decode function fn
JustReturned(s, fn) == AtReturn(s) /\ LastCall(s).fn = fn

\* a symbolRef<T>() call or a kSymbolRef back-reference
IsLookup(e) == e.fn = "symbolRef" \/ (e.fn = "symbol" /\ e.cmd = "kSymbolRef")

\* the object a symbol identity names
SymbolOf(id) == IF id[1] = 0 THEN BuiltinTypes[id[2]] ELSE syms[id[1]][id[2]]

\* the 16 bits at offset o of a buffer, low byte first
U16At(bytes, o) == bytes[o + 1] + 256 * bytes[o + 2]

\* the signed 32 bits at offset o of a buffer, low byte first
S32At(bytes, o) ==
  bytes[o + 1] + 256 * bytes[o + 2] + 65536 * bytes[o + 3]
  + 16777216 * (IF bytes[o + 4] >= 128 THEN bytes[o + 4] - 256 ELSE bytes[o + 4])

\* C1: in a build with assertions, a lookup (symbolRef or a kSymbolRef
\* back-reference) of an id that addSymbol() was not called for is fatal: a
\* lookup that returned was of a registered id and returned the symbol
\* registered under that id, never null.
C1_UnregisteredLookupIsFatal ==
  \A s \in Sessions :
    (skDebug /\ Live(s) /\ calls[s] # <<>> /\ IsLookup(LastCall(s)))
      => /\ LastCall(s).vals[1] \in DOMAIN fSymbols[s].at
         /\ LastCall(s).res = fSymbols[s].at[LastCall(s).vals[1]]
         /\ LastCall(s).res # Null

\* C2 as stated: every symbol() call that returns a symbol leaves that symbol
\* in the registry under the id its record holds (the 16 bits that follow
\* the tag).
C2_EveryReturnedSymbolIsRegistered ==
  \A s \in Sessions :
    (JustReturned(s, "symbol") /\ LastCall(s).res # Null)
      => RegAt(fSymbols[s], U16At(buf[s], LastCall(s).at + 1)) = LastCall(s).res

\* C2, amended: a symbol() call that returns a newly created symbol other
\* than a Field, or a system type, registers it under the id read from the
\* stream before it returns; a back-reference returns what the registry holds
\* under the id it reads and registers nothing; a Field has no id of its own,
\* and decoding it registers nothing.
C2_CreatedSymbolsAreRegistered ==
  [][ \A s \in Sessions :
        (calls'[s] # calls[s] /\ JustReturned(s, "symbol")'
         /\ LastCall(s)'.res # Null)
          => IF LastCall(s)'.cmd \in {"kField", "kSymbolRef"}
             THEN /\ fSymbols'[s] = fSymbols[s]
                  /\ LastCall(s)'.cmd = "kSymbolRef"
                       => RegAt(fSymbols[s], LastCall(s)'.vals[1])
                            = LastCall(s)'.res
                  /\ LastCall(s)'.cmd = "kField"
                       => \A id \in DOMAIN fSymbols'[s].at :
                            fSymbols'[s].at[id] # LastCall(s)'.res
             ELSE /\ LastCall(s)'.vals[1] = U16At(buf[s], LastCall(s)'.at + 1)
                  /\ RegAt(fSymbols'[s], LastCall(s)'.vals[1]) = LastCall(s)'.res
    ]_vars

\* a Field was decoded next to a registered Variable, and the session ended
C2_FieldAndVariableDecoded ==
  \E s \in Sessions :
    /\ status[s] = "done"
    /\ \E i, j \in DOMAIN calls[s] :
         /\ calls[s][i].fn = "symbol" /\ calls[s][i].cmd = "kField"
         /\ calls[s][i].res # Null
         /\ calls[s][j].fn = "symbol" /\ calls[s][j].cmd = "kVariable"
         /\ RegAt(fSymbols[s], calls[s][j].vals[1]) = calls[s][j].res

\* a symbol() call that registered the symbol it made under vals[1]
Registers(e) ==
  e.fn = "symbol" /\ e.cmd \in SymbolCommands \ {"kField", "kSymbolRef"}

\* the last of the first k calls of a log that registered id; 0 if none did
RECURSIVE LastRegistration(_, _, _)
LastRegistration(log, k, id) ==
  IF k = 0 THEN 0
  ELSE IF Registers(log[k]) /\ log[k].vals[1] = id THEN k
  ELSE LastRegistration(log, k - 1, id)

\* C3: a lookup of id N decoded after a symbol was registered under N returns
\* the identity of the object that registration made, and a Variable whose
\* type is given by a back-reference has that very object as its type.
C3_BackReferenceYieldsTheRegisteredObject ==
  \A s \in Sessions :
    (Live(s) /\ calls[s] # <<>>) =>
      LET log == calls[s]
          k == Len(log)
      IN  /\ IsLookup(log[k])
               => \/ LastRegistration(log, k - 1, log[k].vals[1]) = 0
                  \/ log[LastRegistration(log, k - 1, log[k].vals[1])].res = Null
                  \/ log[k].res
                       = log[LastRegistration(log, k - 1, log[k].vals[1])].res
          /\ ( /\ log[k].fn = "symbol" /\ log[k].cmd = "kVariable"
               /\ k >= 3
               /\ log[k - 2].fn = "symbol" /\ log[k - 2].cmd = "kSymbolRef" )
               => /\ log[k - 1].fn = "type"
                  /\ SymbolOf(log[k].res).type = log[k - 2].res

\* a struct type was decoded, then a function declaration whose parameter is
\* a variable of that struct type, given by reference
C3_ParameterOfTheDecodedStructType ==
  \E s \in Sessions :
    /\ status[s] = "done"
    /\ \E i, j, k \in DOMAIN calls[s] :
         /\ i < j /\ j < k
         /\ calls[s][i].fn = "symbol" /\ calls[s][i].cmd = "kStructType"
         /\ calls[s][j].fn = "symbol" /\ calls[s][j].cmd = "kSymbolRef"
         /\ calls[s][j].res = calls[s][i].res
         /\ calls[s][k].fn = "symbol" /\ calls[s][k].cmd = "kFunctionDeclaration"
         /\ calls[s][k].res # Null
         /\ SymbolOf(calls[s][k].res).list # <<>>
         /\ SymbolOf(calls[s][k].res).list[1] # Null
         /\ SymbolOf(SymbolOf(calls[s][k].res).list[1]).type = calls[s][i].res

\* the depth of a table: the number of tables on its parent chain
RECURSIVE TableDepth(_, _)
TableDepth(s, t) ==
  IF t = Null THEN 0 ELSE 1 + TableDepth(s, tabs[s][t[2]].parent)

\* C5: while symbolTable(inherit) decodes its owned symbols and references
\* the fresh table is the active table, the fresh table's parent is the
\* table that was active at the call if inherit and none otherwise, and on
\* return the active table is the table that was active at the call.
C5_SymbolTableRestoresTheActiveTable ==
  \A s \in Sessions :
    Live(s) =>
      /\ \A i \in DOMAIN stack[s] :
           (stack[s][i].fn = "symbolTable" /\ stack[s][i].tab # Null)
             => /\ stack[s][i].tab # stack[s][i].was
                /\ stack[s][i].old = stack[s][i].was
                /\ tabs[s][stack[s][i].tab[2]].parent
                     = (IF stack[s][i].inherit THEN stack[s][i].was ELSE Null)
                /\ IF i = Len(stack[s])
                   THEN fSymbolTable[s] = stack[s][i].tab
                   ELSE stack[s][i + 1].was = stack[s][i].tab
      /\ JustReturned(s, "symbolTable")
           => /\ LastCall(s).now = LastCall(s).was
              /\ fSymbolTable[s] = LastCall(s).was
              /\ LastCall(s).res = LastCall(s).tab

\* a table nested two tables below the module's returned, having decoded a
\* symbol of its own
C5_NestedTableReturned ==
  \E s \in Sessions :
    /\ JustReturned(s, "symbolTable")
    /\ LastCall(s).tab # Null
    /\ LastCall(s).vals[2] # <<>>
    /\ TableDepth(s, LastCall(s).tab) >= MaxDepth + 1

\* a block or a switch whose AutoRehydratorSymbolTable has been constructed
HasPushed(f) ==
  /\ f.fn = "statement"
  /\ \/ f.cmd = "kBlock" /\ f.pc >= 4
     \/ f.cmd = "kSwitch" /\ f.pc >= 5

\* the table that guard made active
PushedTable(f) == IF f.cmd = "kBlock" THEN f.vals[1] ELSE f.vals[2]

\* C6: when statement() returns, the active symbol table is the one that was
\* active when it was called; the table a block or a switch pushed is the
\* active table at every call that decodes one of its children, and is not
\* the active table once the block or switch has returned.
C6_StatementRestoresTheActiveTable ==
  \A s \in Sessions :
    Live(s) =>
      /\ JustReturned(s, "statement")
           => /\ LastCall(s).now = LastCall(s).was
              /\ fSymbolTable[s] = LastCall(s).was
              /\ LastCall(s).cmd \in {"kBlock", "kSwitch"}
                   => \/ PushedTable(LastCall(s)) = Null
                      \/ fSymbolTable[s] # PushedTable(LastCall(s))
      /\ \A i \in DOMAIN stack[s] :
           HasPushed(stack[s][i])
             => IF i = Len(stack[s])
                THEN fSymbolTable[s] = PushedTable(stack[s][i])
                ELSE stack[s][i + 1].was = PushedTable(stack[s][i])

\* a block nested in a switch returned, each having pushed a table
C6_NestedBlockReturned ==
  \E s \in Sessions :
    /\ JustReturned(s, "statement")
    /\ LastCall(s).cmd = "kBlock"
    /\ PushedTable(LastCall(s)) # Null
    /\ \E i \in DOMAIN stack[s] :
         /\ HasPushed(stack[s][i])
         /\ stack[s][i].cmd = "kSwitch"
         /\ LastCall(s).was = PushedTable(stack[s][i])

\* C7: a tag that is no case of the switch of layout(), modifiers(),
\* symbol(), element(), statement() or expression() aborts the session: no
\* call ever returns from the default case of its switch.
C7_UnknownTagAlwaysAborts ==
  \A s \in Sessions :
    \A i \in DOMAIN calls[s] : calls[s][i].cmd # "default"

\* the index of the call of fn that returned with the cursor at o, among the
\* first k calls of a log; 0 if there is none
RECURSIVE ReturnAt(_, _, _, _)
ReturnAt(log, k, fn, o) ==
  IF k = 0 THEN 0
  ELSE IF log[k].fn = fn /\ log[k].end = o THEN k
  ELSE ReturnAt(log, k - 1, fn, o)

\* the results of the consecutive element() calls the first k calls of a log
\* record, the last of which returned with the cursor at o; oldest first
RECURSIVE ElementResults(_, _, _)
ElementResults(log, k, o) ==
  IF ReturnAt(log, k, "element", o) = 0 THEN <<>>
  ELSE Append(ElementResults(log, ReturnAt(log, k, "element", o) - 1,
                             log[ReturnAt(log, k, "element", o)].at),
              log[ReturnAt(log, k, "element", o)].res)

\* C8: elements() returns when element() has decoded the 'elements complete'
\* marker and at no other tag; it returns the elements decoded before the
\* marker, in stream order, with the cursor just past the marker.
C8_OnlyTheMarkerEndsTheElements ==
  \A s \in Sessions :
    JustReturned(s, "elements") =>
      LET log == calls[s]
          k == Len(log)
      IN  /\ k >= 2
          /\ log[k - 1].fn = "element"
          /\ log[k - 1].cmd = "kElementsComplete"
          /\ log[k].end = log[k - 1].end
          /\ buf[s][log[k].end] = TagOf("kElementsComplete")
          /\ log[k].res.args
               = ElementResults(log, k - 2, log[k - 1].at)

\* the declarations an enum's table holds match the values that follow the
\* table in the buffer from offset o on: the i-th declaration is of the i-th
\* owned symbol, and its initializer is the literal of the i-th value
EnumDeclarationsMatch(s, t, o) ==
  /\ Len(tabs[s][t[2]].nodes) = Len(tabs[s][t[2]].owned)
  /\ \A i \in DOMAIN tabs[s][t[2]].owned :
       tabs[s][t[2]].nodes[i]
         = Node("VarDeclaration",
                << tabs[s][t[2]].owned[i],
                   SymbolOf(tabs[s][t[2]].owned[i]).type, 0,
                   Node("kIntLiteral", <<S32At(buf[s], o + 4 * (i - 1))>>) >>)

\* C9: an enum element decodes its symbol table with no parent, and then
\* reads one signed 32-bit value per owned symbol of that table, in owned
\* order: the i-th owned variable gets a declaration whose initializer is the
\* integer literal of the i-th value, and for the encoding of an enum the
\* i-th value is the i-th enumerator's constant.
C9_EnumValuesAreReconstructed ==
  \A s \in Sessions :
    (JustReturned(s, "element") /\ LastCall(s).cmd = "kEnum") =>
      LET log == calls[s]
          k == Len(log)
          t == log[k].vals[2]
      IN  /\ log[k - 1].fn = "symbolTable"
          /\ ~log[k - 1].inherit
          /\ log[k - 1].res = t
          /\ tabs[s][t[2]].parent = Null
          /\ log[k].vals[3] = Len(tabs[s][t[2]].owned)
          /\ log[k].end = log[k - 1].end + 4 * Len(tabs[s][t[2]].owned)
          /\ EnumDeclarationsMatch(s, t, log[k - 1].end)
          /\ \A n \in 0..MaxCount :
               buf[s] = EnumE(n)
                 => /\ Len(tabs[s][t[2]].owned) = n
                    /\ \A i \in 1..n :
                         tabs[s][t[2]].nodes[i].args[4].args
                           = <<EnumeratorValue(i)>>

\* an enum with as many enumerators as the bound allows was decoded, its
\* values negative and wider than 16 bits
C9_EnumDecoded ==
  \E s \in Sessions :
    /\ JustReturned(s, "element") /\ LastCall(s).cmd = "kEnum"
    /\ Len(tabs[s][LastCall(s).vals[2][2]].owned) = MaxCount
    /\ \E i, j \in DOMAIN tabs[s][LastCall(s).vals[2][2]].nodes :
         /\ tabs[s][LastCall(s).vals[2][2]].nodes[i].args[4].args[1] < 0
         /\ tabs[s][LastCall(s).vals[2][2]].nodes[j].args[4].args[1] > 65536

\* the index of the call of fn made at cursor o, among the first k calls of
\* a log; 0 if there is none.  A cursor position is read once.
RECURSIVE CallAt(_, _, _, _)
CallAt(log, k, fn, o) ==
  IF k = 0 THEN 0
  ELSE IF log[k].fn = fn /\ log[k].at = o THEN k
  ELSE CallAt(log, k - 1, fn, o)

\* C10: a decoded function declaration has the name read from the stream
\* after its modifiers, as many parameters as the count that follows the
\* name, the i-th parameter being the symbol the i-th reference after the
\* count resolved to, and as return type the type decoded after the last
\* parameter.
C10_FunctionDeclarationIsReconstructed ==
  \A s \in Sessions :
    ( /\ JustReturned(s, "symbol")
      /\ LastCall(s).cmd = "kFunctionDeclaration" /\ LastCall(s).res # Null )
    =>
      LET log == calls[s]
          k == Len(log)
          d == SymbolOf(log[k].res)
          m == CallAt(log, k - 1, "modifiers", log[k].at + 3)
          count == buf[s][log[m].end + 3]
          first == log[m].end + 3
      IN  /\ d.kind = "FunctionDeclaration"
          /\ m # 0
          /\ d.mods = log[m].res
          /\ <<d.name>> = StringAt(buf[s], U16At(buf[s], log[m].end))
          /\ Len(d.list) = count
          /\ \A i \in 1..count :
               /\ CallAt(log, k - 1, "symbolRef", first + 2 * (i - 1)) > m
               /\ d.list[i]
                    = log[CallAt(log, k - 1, "symbolRef", first + 2 * (i - 1))].res
               /\ log[CallAt(log, k - 1, "symbolRef", first + 2 * (i - 1))].vals
                    = <<U16At(buf[s], first + 2 * (i - 1))>>
          /\ log[k - 1].fn = "type"
          /\ log[k - 1].at = first + 2 * count
          /\ d.type = log[k - 1].res
          /\ log[k].end = log[k - 1].end

\* a function declaration with as many parameters as the bound allows was
\* decoded: its parameters are distinct variables, and it returns half4
C10_FunctionDeclarationDecoded ==
  \E s \in Sessions :
    /\ JustReturned(s, "symbol")
    /\ LastCall(s).cmd = "kFunctionDeclaration" /\ LastCall(s).res # Null
    /\ Len(SymbolOf(LastCall(s).res).list) = MaxCount
    /\ \A i \in 1..MaxCount :
         /\ SymbolOf(LastCall(s).res).list[i] # Null
         /\ SymbolOf(SymbolOf(LastCall(s).res).list[i]).kind = "Variable"
    /\ SymbolOf(LastCall(s).res).list[1] # SymbolOf(LastCall(s).res).list[MaxCount]
    /\ SymbolOf(LastCall(s).res).name = Names.f
    /\ SymbolOf(LastCall(s).res).type # Null
    /\ SymbolOf(SymbolOf(LastCall(s).res).type).name = Names.half4

\* a session run alone from m to its end, the client making the calls of
\* plan p: the session's last record, and what its public calls returned
RECURSIVE Alone(_, _, _)
Alone(m, p, o) ==
  IF ~Running(m) THEN [m |-> m, out |-> o]
  ELSE IF m.stack # <<>> THEN Alone(Run([m EXCEPT !.ret = <<>>]), p, o)
  ELSE IF p = <<>> THEN [m |-> m, out |-> o \o m.ret]
  ELSE Alone([m EXCEPT !.stack = <<NewFrame(m, Head(p))>>, !.ret = <<>>],
             Tail(p), o \o m.ret)

\* session s is where the run a ended
EndedAs(s, a) ==
  /\ Running(a.m) /\ a.m.stack = <<>>
  /\ fSymbols[s] = a.m.reg
  /\ fIP[s] = a.m.ip
  /\ fSymbolTable[s] = a.m.cur
  /\ syms[s] = a.m.syms
  /\ tabs[s] = a.m.tabs
  /\ calls[s] = a.m.log
  /\ out[s] = a.out

\* what session s holds: its cursor, active table, registry, objects and
\* active calls
Own(s) ==
  << status[s], buf[s], fIP[s], fSymbolTable[s], fSymbols[s], stack[s],
     syms[s], tabs[s], plan[s], out[s], calls[s] >>

\* C4: of two sessions over buffers of their own whose steps interleave in
\* any order, each ends with the registry, cursor, tables and results it
\* ends with when run alone; a registry names only builtin symbols and
\* symbols of its own session; and a step of one session changes nothing the
\* other session holds.
C4_SessionsAreIndependent ==
  /\ [](\A s \in Sessions :
          /\ status[s] = "done"
               => EndedAs(s, Alone(Rehydrator(skDebug, s, buf[s]), ClientPlan, <<>>))
          /\ \A id \in DOMAIN fSymbols[s].at :
               fSymbols[s].at[id][1] \in {0, s})
  /\ [][\A s \in Sessions :
          Own(s)' # Own(s) => \A t \in Sessions \ {s} : Own(t)' = Own(t)]_vars

\* both sessions ended, having registered symbols of their own under the
\* same id, and one an id the other never registered
C4_BothSessionsEnded ==
  /\ \A s \in Sessions : status[s] = "done"
  /\ \E id \in DOMAIN fSymbols[1].at \cap DOMAIN fSymbols[2].at :
       /\ fSymbols[1].at[id][1] = 1
       /\ fSymbols[2].at[id][1] = 2
  /\ DOMAIN fSymbols[1].at # DOMAIN fSymbols[2].at

\* the places (table, position) where a table of session s owns the symbol id
OwnersOf(s, id) ==
  { <<t, i>> \in (DOMAIN tabs[s]) \X (0..Len(syms[s])) :
      i \in DOMAIN tabs[s][t].owned /\ tabs[s][t].owned[i] = id }

\* C11: every symbol a session created is owned by exactly one symbol table,
\* once; tables own nothing but symbols the session created; a symbol()
\* call that created a symbol gave it to the table that was active at the
\* call; and a back-reference or a system type leaves every table's owned
\* symbols as they were.
C11_EverySymbolHasOneOwner ==
  \A s \in Sessions :
    Live(s) =>
      /\ \A n \in DOMAIN syms[s] : Cardinality(OwnersOf(s, <<s, n>>)) = 1
      /\ \A t \in DOMAIN tabs[s] :
           /\ Len(tabs[s][t].owned) <= Len(syms[s])
           /\ \A i \in DOMAIN tabs[s][t].owned :
                /\ tabs[s][t].owned[i][1] = s
                /\ tabs[s][t].owned[i][2] \in DOMAIN syms[s]
      /\ (JustReturned(s, "symbol") /\ LastCall(s).res # Null)
           => IF LastCall(s).cmd \in {"kSymbolRef", "kSystemType"}
              THEN \/ LastCall(s).res[1] = 0
                   \/ LastCall(s).res[2] < Len(syms[s])
                   \/ OwnersOf(s, LastCall(s).res) # {}
              ELSE /\ LastCall(s).res = <<s, Len(syms[s])>>
                   /\ OwnersOf(s, LastCall(s).res) \subseteq
                        {LastCall(s).was[2]} \X (0..Len(syms[s]))

\* a table that inherits entered, by its reference list, a symbol it owns,
\* and holds a back-reference to a symbol that another table owns
C11_ReferenceToASymbolOwnedElsewhere ==
  \E s \in Sessions :
    /\ JustReturned(s, "symbol") /\ LastCall(s).cmd = "kSymbolRef"
    /\ LastCall(s).res # Null /\ LastCall(s).res[1] = s
    /\ \E o \in OwnersOf(s, LastCall(s).res) : o[1] # LastCall(s).was[2]
    /\ \E t \in DOMAIN tabs[s] : tabs[s][t].refs # <<>> /\ tabs[s][t].owned # <<>>

\* C12: every symbol table that answers isBuiltin() has no parent.
C12_BuiltinTablesHaveNoParent ==
  \A s \in Sessions :
    \A t \in DOMAIN tabs[s] : tabs[s][t].builtin => tabs[s][t].parent = Null

(***************************************************************************)
(* Claims about Type::coercionCost.                                        *)
(***************************************************************************)
\* the coercionCost calls that returned: this is e.vals[1], other e.vals[2]
CostCalls ==
  UNION { {calls[s][k] : k \in {i \in DOMAIN calls[s] :
                                   calls[s][i].fn = "coercionCost"}} :
          s \in Sessions }

isIntegerLiteral(t) == t.isLiteral /\ isInteger(t)

\* the rule of the claim for the scalars a and b of one number kind
ByPriority(a, b, cost) ==
  /\ (cost = Free) <=> TypeEq(a, b)
  /\ (cost = Normal(b.priority - a.priority)) <=> (b.priority >= a.priority)
  /\ (b.priority < a.priority) => cost = Narrowing(a.priority - b.priority)

\* C13 as stated: for all scalar types A, B of the same number kind,
\* coercionCost(A, B) is Free iff A == B, Normal(priority(B) - priority(A))
\* iff priority(B) >= priority(A), and Narrowing(priority(A) - priority(B))
\* otherwise.
C13_ScalarsOfOneKindCostTheirPriorityDifference ==
  \A e \in CostCalls :
    (isScalar(e.vals[1]) /\ isScalar(e.vals[2])
       /\ e.vals[1].numberKind = e.vals[2].numberKind)
      => ByPriority(e.vals[1], e.vals[2], e.res)

\* C13, amended: the rule holds for all scalar types A, B of the same number
\* kind when A is not an integer literal type; from an integer literal type
\* the cost to a scalar of its number kind is Free whatever the priorities.
C13_NonLiteralScalarsCostTheirPriorityDifference ==
  \A e \in CostCalls :
    (isScalar(e.vals[1]) /\ isScalar(e.vals[2])
       /\ e.vals[1].numberKind = e.vals[2].numberKind)
      => IF isIntegerLiteral(e.vals[1]) THEN e.res = Free
         ELSE ByPriority(e.vals[1], e.vals[2], e.res)

\* int to short was asked and is a narrowing of three priority steps
C13_IntToShortAsked ==
  \E e \in CostCalls :
    /\ e.vals[1] = fTypes.fInt /\ e.vals[2] = fTypes.fShort
    /\ e.res = Narrowing(3)

isShaped(t) == isVector(t) \/ isMatrix(t)

SameShape(a, b) == a.columns = b.columns /\ a.rows = b.rows

\* other is an entry of this type's list of coercible types
InCoercibleTypes(this, other) ==
  /\ this.hasCoercibleTypes
  /\ \E i \in DOMAIN this.fCoercibleTypes : TypeEq(this.fCoercibleTypes[i], other)

\* C14 as stated: coercionCost(A, B) is Impossible whenever A and B are
\* vectors or matrices of different shapes, or are scalars of different
\* number kinds with no explicit coercible-type relationship.
C14_DifferentShapesOrKindsAreImpossible ==
  \A e \in CostCalls :
    ( \/ isShaped(e.vals[1]) /\ isShaped(e.vals[2])
           /\ ~SameShape(e.vals[1], e.vals[2])
      \/ isScalar(e.vals[1]) /\ isScalar(e.vals[2])
           /\ e.vals[1].numberKind # e.vals[2].numberKind
           /\ ~InCoercibleTypes(e.vals[1], e.vals[2]) )
      => e.res = Impossible

\* C14, amended: the same, for scalars only when the source is not an
\* integer literal type.
C14_DifferentShapesOrNonLiteralKindsAreImpossible ==
  \A e \in CostCalls :
    ( \/ isShaped(e.vals[1]) /\ isShaped(e.vals[2])
           /\ ~SameShape(e.vals[1], e.vals[2])
      \/ isScalar(e.vals[1]) /\ isScalar(e.vals[2])
           /\ ~isIntegerLiteral(e.vals[1])
           /\ e.vals[1].numberKind # e.vals[2].numberKind
           /\ ~InCoercibleTypes(e.vals[1], e.vals[2]) )
      => e.res = Impossible

\* uint to int, scalars of different number kinds, was asked and is
\* impossible
C14_UIntToIntAsked ==
  \E e \in CostCalls :
    /\ e.vals[1] = fTypes.fUInt /\ e.vals[2] = fTypes.fInt
    /\ e.res = Impossible

\* C15: for two distinct vector types with the same column count, and for a
\* matrix source and a destination with the same columns and rows, the cost
\* is the cost of the source's component type to the destination's; when
\* the shapes differ the cost is Impossible whatever the component types.
C15_ShapedTypesCostTheirComponents ==
  \A e \in CostCalls :
    ~TypeEq(e.vals[1], e.vals[2]) =>
      /\ ( \/ isVector(e.vals[1]) /\ isVector(e.vals[2])
                /\ e.vals[1].columns = e.vals[2].columns
           \/ isMatrix(e.vals[1]) /\ SameShape(e.vals[1], e.vals[2]) )
           => /\ e.res = coercionCost(e.vals[1].componentType,
                                      e.vals[2].componentType)
              /\ e.res = IF TypeEq(e.vals[1].componentType,
                                   e.vals[2].componentType) THEN Free
                         ELSE Numeric(e.vals[1].componentType,
                                      e.vals[2].componentType)
      /\ ( \/ isShaped(e.vals[1]) /\ isShaped(e.vals[2])
                /\ ~SameShape(e.vals[1], e.vals[2])
           \/ isMatrix(e.vals[1]) /\ ~SameShape(e.vals[1], e.vals[2]) )
           => e.res = Impossible

\* half3 to float3 was asked and costs what half to float costs
C15_Half3ToFloat3Asked ==
  \E e \in CostCalls :
    /\ e.vals[1] = fTypes.fHalf3 /\ e.vals[2] = fTypes.fFloat3
    /\ e.res = Normal(1)
    /\ e.res = coercionCost(fTypes.fHalf, fTypes.fFloat)

\* C16: the cost from an integer literal type to any numeric scalar type is
\* Free, for every number kind and priority of the destination.
C16_IntegerLiteralsCoerceFreely ==
  \A e \in CostCalls :
    (isIntegerLiteral(e.vals[1]) /\ isScalar(e.vals[2]) /\ isNumber(e.vals[2]))
      => e.res = Free

\* the integer literal type to ushort, of another number kind and a lower
\* priority, was asked
C16_IntLiteralToUShortAsked ==
  \E e \in CostCalls :
    /\ e.vals[1] = fTypes.fIntLiteral /\ e.vals[2] = fTypes.fUShort
    /\ e.res = Free

\* the positions, from 0, of the entries of this type's list that equal
\* other
Matches(this, other) ==
  {i \in 0..(Len(this.fCoercibleTypes) - 1) :
     TypeEq(this.fCoercibleTypes[i + 1], other)}

\* C17: when neither the identity, vector, matrix nor numeric-scalar rule
\* applies, the cost is Normal(i + 1) where i is the first position of the
\* destination in the source's list of coercible types, and Impossible when
\* the destination is not in the list or the source has no list.
C17_CoercibleTypesCostTheirPosition ==
  \A e \in CostCalls :
    ( /\ ~TypeEq(e.vals[1], e.vals[2])
      /\ ~(isVector(e.vals[1]) /\ isVector(e.vals[2]))
      /\ ~isMatrix(e.vals[1])
      /\ ~(isNumber(e.vals[1]) /\ isNumber(e.vals[2])) )
      => IF e.vals[1].hasCoercibleTypes /\ Matches(e.vals[1], e.vals[2]) # {}
         THEN \E i \in Matches(e.vals[1], e.vals[2]) :
                /\ \A j \in Matches(e.vals[1], e.vals[2]) : i <= j
                /\ e.res = Normal(i + 1)
         ELSE e.res = Impossible

\* $genType to float3, the third entry of its list, was asked
C17_GenTypeToFloat3Asked ==
  \E e \in CostCalls :
    /\ e.vals[1] = fTypes.fGenType /\ e.vals[2] = fTypes.fFloat3
    /\ e.res = Normal(3)

(***************************************************************************)
(* Claims about Type::toCompound and Type::clone.                          *)
(***************************************************************************)
\* the calls of fn that returned, in the order they were made
CallsOf(s, fn) == SelectSeq(calls[s], LAMBDA e : e.fn = fn)

\* the scalar type a scalar or literal type stands for
ScalarOf(t) ==
  IF TypeEq(t, fTypes.fFloatLiteral) THEN fTypes.fFloat
  ELSE IF TypeEq(t, fTypes.fIntLiteral) THEN fTypes.fInt
  ELSE t

\* C18: toCompound(base, columns, rows) on a scalar base returns the
\* builtin singleton of that shape over the base (the base itself for one
\* column and one row): float with (3, 1) gives float3, half with (3, 3)
\* gives half3x3, and calls with the same arguments return the same type.
C18_ToCompoundReturnsTheSingletonOfTheShape ==
  \A s \in Sessions :
    \A i \in DOMAIN CallsOf(s, "toCompound") :
      LET e == CallsOf(s, "toCompound")[i] IN
      isScalar(e.vals[1]) =>
        /\ e.res \in Types
        /\ e.res.columns = e.vals[2] /\ e.res.rows = e.vals[3]
        /\ IF e.vals[2] = 1 /\ e.vals[3] = 1 THEN e.res = e.vals[1]
           ELSE e.res.componentType = ScalarOf(e.vals[1])
        /\ (e.vals = <<fTypes.fFloat, 3, 1>>) => e.res = fTypes.fFloat3
        /\ (e.vals = <<fTypes.fHalf, 3, 3>>) => e.res = fTypes.fHalf3x3
        /\ \A j \in DOMAIN CallsOf(s, "toCompound") :
             CallsOf(s, "toCompound")[j].vals = e.vals
               => CallsOf(s, "toCompound")[j].res = e.res

\* half with (3, 2) was asked twice and gave half3x2 both times
C18_Half3x2AskedTwice ==
  \E s \in Sessions :
    /\ Len(CallsOf(s, "toCompound")) = 2
    /\ \A i \in 1..2 :
         /\ CallsOf(s, "toCompound")[i].vals = <<fTypes.fHalf, 3, 2>>
         /\ CallsOf(s, "toCompound")[i].res = fTypes.fHalf3x2

\* the types toCompound has a family of compound types for
HasFamily(t) ==
  \E b \in { fTypes.fFloat, fTypes.fFloatLiteral, fTypes.fHalf, fTypes.fInt,
             fTypes.fIntLiteral, fTypes.fShort, fTypes.fUInt, fTypes.fUShort,
             fTypes.fBool } : TypeEq(t, b)

\* the shapes a family has: one to four columns of one row and, for float
\* and half, two to four columns of two to four rows
SupportedShape(t, columns, rows) ==
  \/ rows = 1 /\ columns \in 1..4
  \/ /\ ScalarOf(t) \in {fTypes.fFloat, fTypes.fHalf}
     /\ rows \in 2..4 /\ columns \in 2..4

\* C19: toCompound fails fatally, and never returns a type, whenever the
\* base type has no compound family or the requested shape is unsupported
\* for that base: every call that returned had a base with a family and a
\* shape that family supports.
C19_ToCompoundNeverReturnsWithoutAFamily ==
  \A s \in Sessions :
    \A i \in DOMAIN CallsOf(s, "toCompound") :
      LET e == CallsOf(s, "toCompound")[i] IN
      /\ HasFamily(e.vals[1])
      /\ SupportedShape(e.vals[1], e.vals[2], e.vals[3])

\* the same, where assertions are compiled in
ToCompoundNeverReturnsInADebugBuild ==
  skDebug => C19_ToCompoundNeverReturnsWithoutAFamily

\* the same, for a base that is one of the scalar types
ToCompoundNeverReturnsForScalars ==
  \A s \in Sessions :
    \A i \in DOMAIN CallsOf(s, "toCompound") :
      LET e == CallsOf(s, "toCompound")[i] IN
      isScalar(e.vals[1]) =>
        /\ HasFamily(e.vals[1])
        /\ SupportedShape(e.vals[1], e.vals[2], e.vals[3])

\* the tables and symbols of session s after its i-th returned call
After(s, i) ==
  IF i < Len(calls[s])
  THEN [tabs |-> calls[s][i + 1].tabs, syms |-> calls[s][i + 1].syms]
  ELSE [tabs |-> tabs[s], syms |-> syms[s]]

\* the names an analyzer looks up
LookupNames == {NameInt, NameFloat2, NameHalf4, NameS, NameE,
                ArrayName(NameInt, MaxCount)}

\* C20: clone(builtinType, table) returns exactly builtinType for every
\* table and leaves every table unchanged: no symbol is added and no lookup
\* result changes.
C20_CloneOfABuiltinTypeIsTheType ==
  \A s \in Sessions :
    \A i \in DOMAIN calls[s] :
      LET e == calls[s][i] IN
      (e.fn = "clone" /\ isInBuiltinTypes(Sym(e, e.vals[1]))) =>
        /\ e.res = e.vals[1]
        /\ After(s, i).tabs = e.tabs
        /\ After(s, i).syms = e.syms
        /\ \A t \in DOMAIN e.tabs : \A n \in LookupNames :
             Lookup(After(s, i), <<s, t>>, n) = Lookup(e, <<s, t>>, n)

\* the builtin type int was cloned into a table where the name int is a
\* variable's, after a struct type was cloned into that table
C20_IntClonedWhereIntIsAVariable ==
  \E s \in Sessions :
    /\ Len(calls[s]) = 2
    /\ calls[s][1].fn = "clone" /\ calls[s][2].fn = "clone"
    /\ calls[s][1].vals = <<<<s, 1>>, <<s, 4>>>>
    /\ calls[s][1].res \notin {Null, <<s, 1>>}
    /\ calls[s][2].vals = <<<<0, 1>>, <<s, 4>>>>
    /\ calls[s][2].res = <<0, 1>>
    /\ Lookup(Session(s), <<s, 4>>, NameInt) = <<s, 4>>

\* the types that clone copies
isCloned(rec) == rec.kind = "Type" /\ rec.tk \in {"array", "struct", "enum"}

\* C21: clone(type, table) of a struct, array or enum type called twice
\* against the same table returns on the second call the instance the first
\* call returned, and the second call adds nothing to the table.
C21_SecondCloneReturnsTheFirst ==
  \A s \in Sessions :
    \A i \in DOMAIN calls[s] :
      ( /\ i > 1
        /\ calls[s][i].fn = "clone" /\ calls[s][i - 1].fn = "clone"
        /\ calls[s][i].vals = calls[s][i - 1].vals
        /\ isCloned(Sym(calls[s][i], calls[s][i].vals[1])) )
        => /\ calls[s][i].res = calls[s][i - 1].res
           /\ After(s, i).tabs = calls[s][i].tabs
           /\ After(s, i).syms = calls[s][i].syms

\* the array type was cloned twice into the table with no parent where it
\* was absent: the first call added it and the second returned that copy
C21_ArrayClonedTwice ==
  \E s \in Sessions :
    /\ Len(calls[s]) = 2
    /\ calls[s][1].fn = "clone" /\ calls[s][2].fn = "clone"
    /\ calls[s][1].vals = <<<<s, 2>>, <<s, 4>>>>
    /\ calls[s][2].vals = <<<<s, 2>>, <<s, 4>>>>
    /\ calls[s][1].res = <<s, Len(calls[s][1].syms) + 1>>
    /\ calls[s][2].res = calls[s][1].res
    /\ Len(syms[s]) = Len(calls[s][1].syms) + 1

\* two types are structurally equal: the same name, kind and shape
SameStructure(a, b) ==
  /\ a.kind = "Type" /\ b.kind = "Type"
  /\ a.name = b.name /\ a.tk = b.tk
  /\ a.type = b.type /\ a.n = b.n /\ a.list = b.list

\* C22: clone(type, table) reuses an existing entry of the table only when
\* that entry is a type structurally equal to the cloned type: a clone that
\* returned a symbol that existed before the call returned a type of the
\* same name, kind and shape.
C22_CloneReusesOnlyEqualTypes ==
  \A s \in Sessions :
    \A i \in DOMAIN calls[s] :
      LET e == calls[s][i] IN
      ( /\ e.fn = "clone"
        /\ isCloned(Sym(e, e.vals[1]))
        /\ e.res # Null /\ e.res[2] <= Len(e.syms) )
        => SameStructure(Sym(e, e.res), Sym(e, e.vals[1]))

\* the same, for the kind of the type alone and where assertions are
\* compiled in
CloneReusesTheSameKindInADebugBuild ==
  \A s \in Sessions :
    \A i \in DOMAIN calls[s] :
      LET e == calls[s][i] IN
      ( /\ skDebug /\ e.fn = "clone"
        /\ isCloned(Sym(e, e.vals[1]))
        /\ e.res # Null /\ e.res[2] <= Len(e.syms) )
        => /\ Sym(e, e.res).kind = "Type"
           /\ Sym(e, e.res).tk = Sym(e, e.vals[1]).tk
           /\ Sym(e, e.res).name = Sym(e, e.vals[1]).name

(***************************************************************************)
(* Claims about Type::coerceExpression.                                    *)
(***************************************************************************)
\* the errors in the sink of session s after its i-th returned call
SinkAfter(s, i) ==
  IF i < Len(calls[s]) THEN calls[s][i + 1].errors ELSE fErrors[s]

\* the errors the i-th returned call of session s reported
ErrorsOf(s, i) ==
  SubSeq(SinkAfter(s, i), Len(calls[s][i].errors) + 1, Len(SinkAfter(s, i)))

isReference(expr) == expr.kind \in {"FunctionReference", "TypeReference"}

\* the returned calls of coerceExpression: the target type is vals[1], the
\* expression vals[2], settings.fAllowNarrowingConversions vals[3]
CoerceCalls(s) == {i \in DOMAIN calls[s] : calls[s][i].fn = "coerceExpression"}

\* C24: coerceExpression applied to a bare function reference or a bare type
\* reference reports exactly one error at the expression's offset and
\* returns null, for every target type, including one equal to the
\* expression's type.
C24_ReferencesAreRejected ==
  \A s \in Sessions : \A i \in CoerceCalls(s) :
    LET e == calls[s][i] IN
    isReference(e.vals[2]) =>
      /\ e.res = NoExpression
      /\ Len(ErrorsOf(s, i)) = 1
      /\ ErrorsOf(s, i)[1].offset = e.vals[2].fOffset

\* a type reference was coerced to its own type, at the last offset
C24_TypeReferenceCoercedToItsType ==
  \E s \in Sessions : \E i \in CoerceCalls(s) :
    /\ calls[s][i].vals[2].kind = "TypeReference"
    /\ calls[s][i].vals[2].fOffset = MaxCount
    /\ TypeEq(calls[s][i].vals[2].type, calls[s][i].vals[1])
    /\ calls[s][i].res = NoExpression
    /\ fErrors[s] = <<Error(MaxCount,
                           "expected '(' to begin constructor invocation")>>

\* C25 as stated: coerceExpression applied to an expression that already
\* has the target type returns that same expression unchanged and reports
\* no error.
C25_SameTypeIsReturnedUnchanged ==
  \A s \in Sessions : \A i \in CoerceCalls(s) :
    LET e == calls[s][i] IN
    (e.vals[2] # NoExpression /\ TypeEq(e.vals[2].type, e.vals[1])) =>
      /\ e.res = e.vals[2]
      /\ ErrorsOf(s, i) = <<>>

\* C25, amended: coerceExpression applied to an expression that is not a
\* bare function or type reference and already has the target type returns
\* that same expression unchanged and reports no error.
C25_SameTypeNonReferenceIsReturnedUnchanged ==
  \A s \in Sessions : \A i \in CoerceCalls(s) :
    LET e == calls[s][i] IN
    ( /\ e.vals[2] # NoExpression /\ ~isReference(e.vals[2])
      /\ TypeEq(e.vals[2].type, e.vals[1]) ) =>
      /\ e.res = e.vals[2]
      /\ ErrorsOf(s, i) = <<>>

\* a half3x3 variable was coerced to half3x3 and came back as it was
C25_Half3x3CoercedToHalf3x3 ==
  \E s \in Sessions : \E i \in CoerceCalls(s) :
    /\ calls[s][i].vals[1] = fTypes.fHalf3x3
    /\ calls[s][i].vals[2].kind = "VariableReference"
    /\ calls[s][i].vals[2].type = fTypes.fHalf3x3
    /\ calls[s][i].res = calls[s][i].vals[2]
    /\ fErrors[s] = <<>>

\* C26: coerceExpression reports one error and returns null when the cost
\* from the expression's type to the target is not possible under the
\* narrowing setting: an Impossible cost always, a Narrowing cost exactly
\* when narrowing conversions are not allowed.
C26_ImpossibleCoercionsAreRejected ==
  \A s \in Sessions : \A i \in CoerceCalls(s) :
    LET e == calls[s][i]
        cost == coercionCost(e.vals[2].type, e.vals[1])
    IN  (e.vals[2] # NoExpression) =>
          /\ (cost.fImpossible \/ (cost.fNarrowingCost > 0 /\ ~e.vals[3]))
               => /\ e.res = NoExpression
                  /\ Len(ErrorsOf(s, i)) = 1
                  /\ ErrorsOf(s, i)[1].offset = e.vals[2].fOffset
          /\ (~cost.fImpossible /\ cost.fNarrowingCost > 0 /\ e.vals[3])
               => /\ e.res # NoExpression
                  /\ ErrorsOf(s, i) = <<>>

\* an int variable was coerced to short where narrowing is not allowed, and
\* was rejected
C26_IntCoercedToShortWithoutNarrowing ==
  \E s \in Sessions : \E i \in CoerceCalls(s) :
    /\ calls[s][i].vals[1] = fTypes.fShort
    /\ calls[s][i].vals[2] # NoExpression
    /\ calls[s][i].vals[2].type = fTypes.fInt
    /\ calls[s][i].vals[3] = FALSE
    /\ calls[s][i].res = NoExpression
    /\ Len(fErrors[s]) = 1

\* C27: in every remaining case (a non-reference expression of another type
\* whose coercion is possible) coerceExpression returns the expression
\* wrapped in a scalar-cast constructor for a scalar target and in a
\* compound-cast constructor for a vector or matrix target; it returns no
\* null and reports no error.
C27_PossibleCoercionsAreCasts ==
  \A s \in Sessions : \A i \in CoerceCalls(s) :
    LET e == calls[s][i] IN
    ( /\ e.vals[2] # NoExpression /\ ~isReference(e.vals[2])
      /\ ~TypeEq(e.vals[2].type, e.vals[1])
      /\ isPossible(coercionCost(e.vals[2].type, e.vals[1]), e.vals[3]) ) =>
      /\ e.res # NoExpression
      /\ ErrorsOf(s, i) = <<>>
      /\ e.res.argument = e.vals[2]
      /\ e.res.type = e.vals[1]
      /\ e.res.fOffset = e.vals[2].fOffset
      /\ isScalar(e.vals[1]) <=> e.res.kind = "ConstructorScalarCast"
      /\ (isVector(e.vals[1]) \/ isMatrix(e.vals[1]))
           <=> e.res.kind = "ConstructorCompoundCast"

\* a half3 variable was coerced to float3 and came back in a compound cast;
\* narrowing was not allowed
C27_Half3CoercedToFloat3 ==
  \E s \in Sessions : \E i \in CoerceCalls(s) :
    /\ calls[s][i].vals[1] = fTypes.fFloat3
    /\ calls[s][i].vals[2] # NoExpression
    /\ calls[s][i].vals[2].type = fTypes.fHalf3
    /\ calls[s][i].vals[3] = FALSE
    /\ calls[s][i].res =
         ConstructorCompoundCast(calls[s][i].vals[2].fOffset, fTypes.fFloat3,
                                 calls[s][i].vals[2])
    /\ fErrors[s] = <<>>

(***************************************************************************)
(* Claims about Type::checkForOutOfRangeLiteral.                           *)
(***************************************************************************)
\* the returned calls of checkForOutOfRangeLiteral: the target type is
\* vals[1], the expression vals[2]
CheckCalls(s) ==
  {i \in DOMAIN calls[s] : calls[s][i].fn = "checkForOutOfRangeLiteral"}

\* the slots of the constant value of expr that hold an integer literal
\* outside [minimumValue, maximumValue] of the component type of target
SlotsOutOfRange(target, expr) ==
  LET value == GetConstantValueForVariable(expr)
      base == ComponentType(target)
  IN  { k \in DOMAIN value.slots :
          /\ value.slots[k] # NoExpression
          /\ value.slots[k].kind = "IntLiteral"
          /\ \/ Less(value.slots[k].value, minimumValue(base))
             \/ Less(maximumValue(base), value.slots[k].value) }

\* C28: checkForOutOfRangeLiteral reports an error exactly when some
\* integer-literal slot of the constant value lies outside [minimumValue,
\* maximumValue] of the target's integer component type; nothing is
\* reported for a value in range, and nothing for a float or boolean target.
C28_ErrorsExactlyForValuesOutOfRange ==
  \A s \in Sessions : \A i \in CheckCalls(s) :
    LET e == calls[s][i] IN
    /\ ErrorsOf(s, i) # <<>> <=>
         /\ isInteger(ComponentType(e.vals[1]))
         /\ SlotsOutOfRange(e.vals[1], e.vals[2]) # {}
    /\ ~isInteger(ComponentType(e.vals[1])) => ErrorsOf(s, i) = <<>>

\* 32768 was flagged for a short2 whose other component, 300, is in range;
\* the error is at the offset of the checked expression
C28_ShortOverflowFlagged ==
  \E s \in Sessions : \E i \in CheckCalls(s) :
    /\ calls[s][i].vals[1] = fTypes.fShort2
    /\ calls[s][i].vals[2].slots =
         <<Literal("IntLiteral", <<0, 32768>>), Literal("IntLiteral", <<0, 300>>)>>
    /\ Len(fErrors[s]) = 1
    /\ fErrors[s][1].offset = calls[s][i].vals[2].fOffset

\* C29: checkForOutOfRangeLiteral returns true if and only if it reported
\* at least one error, and it keeps checking after an error: there is one
\* error per out-of-range integer-literal slot.
C29_OneErrorPerSlotOutOfRange ==
  \A s \in Sessions : \A i \in CheckCalls(s) :
    LET e == calls[s][i] IN
    /\ e.res = (ErrorsOf(s, i) # <<>>)
    /\ isInteger(ComponentType(e.vals[1])) =>
         Len(ErrorsOf(s, i)) = Cardinality(SlotsOutOfRange(e.vals[1], e.vals[2]))

\* both components of an int2 were out of range for ushort: two errors,
\* the first about the first slot, and the call returned true
C29_BothSlotsFlagged ==
  \E s \in Sessions : \E i \in CheckCalls(s) :
    /\ calls[s][i].vals[1] = fTypes.fUShort
    /\ calls[s][i].vals[2].slots =
         <<Literal("IntLiteral", <<-1, 65535>>), Literal("IntLiteral", <<1, 0>>)>>
    /\ calls[s][i].res = TRUE
    /\ Len(fErrors[s]) = 2
    /\ fErrors[s][1].msg[3] = <<-1, 65535>>
    /\ fErrors[s][2].msg[3] = <<1, 0>>

(***************************************************************************)
(* Claims about SkRuntimeEffect::MakeForShader called from many threads.   *)
(***************************************************************************)
\* at most one thread is in the compiler, and it holds the mutex
Serialized ==
  /\ \A t, u \in Threads : InCompiler(t) /\ InCompiler(u) => t = u
  /\ \A t \in Threads : InCompiler(t) => compilerMutex = t

\* what a thread finds in the compiler in the middle of its compilation is
\* what it left there
NoPartialStateOfAnother ==
  \A t \in Threads :
    At(t, "converting") => compiler.source = t /\ compiler.program = 1

\* a thread that is out of MakeForShader has an effect, of its own program
EveryEffectIsNonNull ==
  \A t \in Threads :
    threads[t].pc \in {"release", "REPORTER_ASSERT", "done", "joined"} =>
      threads[t].effect = t

AllThreadsFinished == \A t \in Threads : At(t, "joined")

\* C30: when several threads concurrently compile the same valid source
\* through the single shared compiler instance, access to the compiler's
\* mutable state is serialized by a mutex and every thread obtains a
\* non-null effect; no thread observes another thread's partial compilation
\* state, and all threads finish.
C30_ThreadsCompileOneAtATimeAndFinish ==
  /\ [](Serialized /\ NoPartialStateOfAnother /\ EveryEffectIsNonNull)
  /\ <>AllThreadsFinished

\* one thread is in the middle of its compilation while another waits for
\* the mutex and a third has its effect already
C30_OneCompilesOneWaitsOneIsDone ==
  \E t, u, v \in Threads :
    /\ At(t, "converting") /\ compilerMutex = t
    /\ At(u, "MakeForShader")
    /\ At(v, "done") /\ threads[v].effect = v

(***************************************************************************)
(* Claims about the reference list of Rehydrator::symbolTable().           *)
(***************************************************************************)
\* session s stopped in the reference loop of symbolTable(): the index it
\* read last, complete and inside the buffer, is not an index of the owned
\* symbols decoded for the table, and ownedSymbols[index] was evaluated
ReadOutsideOwnedSymbols(s) ==
  /\ status[s] = "undefined"
  /\ stack[s] # <<>>
  /\ LET f == stack[s][Len(stack[s])] IN
       /\ f.fn = "symbolTable"
       /\ ~f.done
       /\ f.pc <= Len(ScriptOf(f))
       /\ Item(f) = "tableRef"
       /\ fIP[s] >= 2
       /\ fIP[s] < Len(buf[s])
       /\ buf[s][fIP[s] - 1] + 256 * buf[s][fIP[s]] >= Len(f.vals[2])

\* C31: in Rehydrator::symbolTable(), every reference index read after the
\* owned symbols is smaller than the owned-symbol count just decoded; an
\* index outside that list is never dereferenced.
C31_ReferenceIndicesAreInRange ==
  \A s \in Sessions : ~ReadOutsideOwnedSymbols(s)

\* symbolTable() was called in session s and the byte at the cursor is the
\* 'void' marker
VoidMarkerAhead(s) ==
  /\ Active(s, "symbolTable")
  /\ stack[s][Len(stack[s])].pc = 1
  /\ fIP[s] < Len(buf[s])
  /\ CommandOf(buf[s][fIP[s] + 1]) = "kVoid"

\* C32: when Rehydrator::symbolTable() reads the 'void' marker it returns
\* null having consumed exactly that one tag byte, and leaves the active
\* table and the symbol registry unchanged.
C32_VoidMarkerReturnsNull ==
  [][ \A s \in Sessions :
        (VoidMarkerAhead(s) /\ <<status[s], fIP[s], stack[s]>>' #
                               <<status[s], fIP[s], stack[s]>>) =>
          /\ status'[s] \in {"running", "done"}
          /\ fIP'[s] = fIP[s] + 1
          /\ fSymbolTable'[s] = fSymbolTable[s]
          /\ fSymbols'[s] = fSymbols[s]
          /\ syms'[s] = syms[s] /\ tabs'[s] = tabs[s]
          /\ Len(stack'[s]) = Len(stack[s]) - 1
          /\ calls'[s] # <<>>
          /\ SubSeq(calls'[s], 1, Len(calls'[s]) - 1) = calls[s]
          /\ calls'[s][Len(calls'[s])].fn = "symbolTable"
          /\ calls'[s][Len(calls'[s])].res = Null ]_vars

\* a block's symbolTable() returned null from the 'void' marker, one byte
\* after the cursor it was called at
C32_VoidTableOfABlockReturned ==
  \E s \in Sessions :
    /\ JustReturned(s, "symbolTable")
    /\ LastCall(s).res = Null
    /\ CommandOf(buf[s][LastCall(s).at + 1]) = "kVoid"
    /\ LastCall(s).end = LastCall(s).at + 1
    /\ fIP[s] = LastCall(s).end
    /\ stack[s] # <<>>
    /\ stack[s][Len(stack[s])].fn = "statement"

(***************************************************************************)
(* Claims about the cursor.                                                *)
(***************************************************************************)
DecodeFunctions ==
  {"layout", "modifiers", "symbol", "element", "statement", "expression",
   "symbolTable"}

\* session s stopped at a read of a byte at or past the end of its buffer:
\* fEnd exists in a debug build only, so nothing stops the cursor
ReadPastTheEnd(s) ==
  /\ status[s] = "undefined"
  /\ stack[s] # <<>>
  /\ fIP[s] = Len(buf[s])
  /\ LET f == stack[s][Len(stack[s])] IN
       /\ ~f.done
       /\ f.pc <= Len(ScriptOf(f))
       /\ Item(f) \in (ReadItems \ {"str"}) \cup {"tag", "tableTag", "elementsCommand"}

\* the calls that returned consumed a byte or more, inside the buffer
ReturnedCallsAdvance(s) ==
  \A i \in DOMAIN calls[s] :
    calls[s][i].fn \in DecodeFunctions =>
      /\ calls[s][i].at < calls[s][i].end
      /\ calls[s][i].end <= Len(buf[s])

\* C33: every decode call (layout, modifiers, symbol, element, statement,
\* expression, symbolTable) consumes at least one byte, never moves the
\* cursor backwards and never moves it past the end of the buffer.
C33_TheCursorStaysInsideTheBuffer ==
  \A s \in Sessions :
    /\ ReturnedCallsAdvance(s)
    /\ fIP[s] <= Len(buf[s])
    /\ ~ReadPastTheEnd(s)

\* in a build with assertions the calls that returned advanced inside the
\* buffer and no read went past its end
TheCursorStaysInsideTheBufferInADebugBuild ==
  skDebug => C33_TheCursorStaysInsideTheBuffer

(***************************************************************************)
(* Claims about Rehydrator::modifiers().                                   *)
(***************************************************************************)
\* the returned calls of modifiers() of session s that read the record cmd
ModifiersCalls(s, cmd) ==
  {i \in DOMAIN calls[s] : calls[s][i].fn = "modifiers" /\ calls[s][i].cmd = cmd}

\* the bytes of the layout of a modifiers record whose flags take n bytes
LayoutBytes(s, e, n) == SubSeq(buf[s], e.at + 2, e.end - n)

\* the bytes of the flags of a modifiers record, n of them
FlagBytes(s, e, n) == SubSeq(buf[s], e.end - n + 1, e.end)

\* C34: for every Layout and every flag value that fits in one byte
\* (0..255), decoding the 8-bit-flag modifiers record yields the same
\* Modifiers as decoding the full record (32-bit flag word) that carries
\* the same layout and the same flag value; the default record yields
\* default Modifiers and reads no layout.
C34_ShortAndFullRecordsAgree ==
  \A s \in Sessions :
    /\ \A i \in ModifiersCalls(s, "kModifiers8Bit") :
         \A j \in ModifiersCalls(s, "kModifiers") :
           ( /\ LayoutBytes(s, calls[s][i], 1) = LayoutBytes(s, calls[s][j], 4)
             /\ FlagBytes(s, calls[s][j], 4)
                  = FlagBytes(s, calls[s][i], 1) \o <<0, 0, 0>> ) =>
             /\ calls[s][i].res = calls[s][j].res
             /\ calls[s][i].res.flags = buf[s][calls[s][i].end]
    /\ \A i \in ModifiersCalls(s, "kDefaultModifiers") :
         /\ calls[s][i].res = DefaultModifiers
         /\ calls[s][i].end = calls[s][i].at + 1
         /\ i > 1 => calls[s][i - 1].fn # "layout"

\* the three variables were decoded from a stream whose layout is a full
\* layout record and whose flags are 255
C34_FlagsOf255InBothRecords ==
  \E s \in Sessions :
    /\ status[s] = "done"
    /\ \E i \in ModifiersCalls(s, "kModifiers8Bit") :
         \E j \in ModifiersCalls(s, "kModifiers") :
           /\ calls[s][i].res = calls[s][j].res
           /\ calls[s][i].res.flags = 255
           /\ calls[s][i].res.layout.flags = -1
           /\ calls[s][i].res.layout.builtin = -6
           /\ buf[s][calls[s][i].end] = 255
           /\ FlagBytes(s, calls[s][j], 4) = <<255, 0, 0, 0>>
    /\ ModifiersCalls(s, "kDefaultModifiers") # {}

(***************************************************************************)
(* Claims about GrMtlCommandBuffer.                                        *)
(***************************************************************************)
EndingCalls == {"commit", "encodeSignalEvent", "encodeWaitForEvent", "endAllEncoding"}

\* C35: after any sequence of getBlitCommandEncoder,
\* getRenderCommandEncoder, encodeSignalEvent, encodeWaitForEvent,
\* endAllEncoding and commit, at most one of the render command encoder and
\* the blit command encoder is active; and immediately after commit,
\* encodeSignalEvent, encodeWaitForEvent or endAllEncoding none is active.
C35_AtMostOneActiveEncoder ==
  /\ fActiveBlitCommandEncoder = nil \/ fActiveRenderCommandEncoder = nil
  /\ Cardinality({e \in DOMAIN encoders : ~encoders[e].ended}) <= 1
  /\ returned.op \in EndingCalls =>
       /\ fActiveBlitCommandEncoder = nil
       /\ fActiveRenderCommandEncoder = nil
       /\ \A e \in DOMAIN encoders : encoders[e].ended

\* a blit encoder was asked for while a render encoder was active: the
\* render encoder was ended, and the blit encoder is the only active one
C35_BlitAfterRender ==
  /\ returned.op = "getBlitCommandEncoder"
  /\ Len(encoders) = 2
  /\ encoders[1] = [kind |-> "render", ended |-> TRUE]
  /\ encoders[2] = [kind |-> "blit", ended |-> FALSE]
  /\ fActiveBlitCommandEncoder = 2
  /\ fActiveRenderCommandEncoder = nil

\* C36: the remembered previous render-pass descriptor is non-nil only
\* while a render command encoder is active; hence what
\* getRenderCommandEncoder returns, on the reuse path as on the other, is
\* the currently active, not yet ended render encoder, never null.
C36_DescriptorOnlyWhileRendering ==
  /\ fPreviousRenderPassDescriptor # NilDescriptor =>
       fActiveRenderCommandEncoder # nil
  /\ returned.op = "getRenderCommandEncoder" =>
       /\ returned.v # nil
       /\ returned.v = fActiveRenderCommandEncoder
       /\ encoders[returned.v] = [kind |-> "render", ended |-> FALSE]

\* getRenderCommandEncoder took the reuse path after a blit and a first
\* render pass that cleared its target: the descriptor it was given loads
\* the target, the remembered one is still that of the first pass, and the
\* encoder returned is the one of the first pass, the only one not ended
C36_RenderEncoderReused ==
  /\ returned.op = "getRenderCommandEncoder"
  /\ Len(encoders) = 2
  /\ encoders[1] = [kind |-> "blit", ended |-> TRUE]
  /\ returned.v = 2
  /\ returned.args[1].colorAttachments[1].loadAction = "Load"
  /\ fPreviousRenderPassDescriptor # NilDescriptor
  /\ fPreviousRenderPassDescriptor.colorAttachments[1].loadAction = "Clear"
  /\ ~returned.args[2].isNil


(***************************************************************************)
(* GrMtlPipelineStateBuilder                                               *)
(***************************************************************************)
\* the places in the log of session s of the calls of fn
ReturnsOf(s, fn) == {k \in DOMAIN calls[s] : calls[s][k].fn = fn}

\* C37: finalize() stores shaders in the persistent cache at most once per
\* call, and only when there is a persistent cache, there are no precompiled
\* libraries, the load from the cache returned nothing, the pixel format
\* was valid and both the vertex and the fragment conversion succeeded: so
\* never after a cache hit, whether the cached data was usable or not, and
\* never on a path that returns null before the store.
C37_ShadersAreStoredOnceAfterAMiss ==
  \A s \in Sessions : \A k \in ReturnsOf(s, "finalize") :
    LET in == calls[s][k].vals[1]
        stores == calls[s][k].res.stores
    IN  /\ Len(stores) <= 1
        /\ stores # <<>> =>
             /\ in.persistentCache
             /\ ~in.precompiledLibs
             /\ in.load = "nothing"
             /\ in.pixelFormat # "Invalid"
             /\ in.converts = ShaderTypes

\* a finalize() that stored its SkSL after a miss, though the libraries did
\* not compile afterwards
C37_SkSLStoredBeforeTheCompileFailed ==
  \E s \in Sessions : \E k \in ReturnsOf(s, "finalize") :
    /\ Len(calls[s][k].res.stores) = 1
    /\ calls[s][k].res.stores[1].tag = "SKSL"
    /\ calls[s][k].res.v = "nullptr"

\* C38: read_pipeline_data() reads the pipeline data finalize() wrote field
\* for field: it consumes exactly the words written, no more and no fewer,
\* and the descriptor it builds has the attribute formats, offsets and
\* bindings, the strides, the blend state, the write mask and the stencil
\* format of the descriptor finalize() set up.
C38_PipelineDataReadsBackAsWritten ==
  \A s \in Sessions : \A k \in ReturnsOf(s, "read_pipeline_data") :
    LET written == calls[s][k - 1].res
        read == calls[s][k].res
    IN  /\ calls[s][k].vals[1] = written.stores[1].pipelineData
        /\ read.reader.valid
        /\ read.reader.at = Len(written.stores[1].pipelineData)
        /\ read.v = written.descriptor

\* data without vertex attributes, with two instance attributes and with
\* blending enabled was read back
C38_InstanceAttributesOnlyReadBack ==
  \E s \in Sessions : \E k \in ReturnsOf(s, "read_pipeline_data") :
    LET d == calls[s][k].res.v
    IN  /\ Len(d.vertexDescriptor.attributes) = 2
        /\ \A a \in DOMAIN d.vertexDescriptor.attributes :
             d.vertexDescriptor.attributes[a].bufferIndex = kLastUniformBinding + 1
        /\ d.vertexDescriptor.layouts # {}
        /\ \A l \in d.vertexDescriptor.layouts : l.stepFunction = "PerInstance"
        /\ d.colorAttachment.blendingEnabled
        /\ d.colorAttachment.writeMask = "None"

\* n is a power of two
RECURSIVE IsPowerOfTwo(_)
IsPowerOfTwo(n) == n = 1 \/ (n > 1 /\ n % 2 = 0 /\ IsPowerOfTwo(n \div 2))

\* C39: for a maxAlignment that is a power of two minus one, buffer_size
\* returns the smallest multiple of maxAlignment + 1 that is not below the
\* offset: the result is at least the offset, exceeds it by at most
\* maxAlignment, and is the offset when the offset is aligned already.
C39_BufferSizeRoundsUpToTheAlignment ==
  \A s \in Sessions : \A k \in ReturnsOf(s, "buffer_size") :
    LET offset == calls[s][k].vals[1]
        maxAlignment == calls[s][k].vals[2]
        size == calls[s][k].res
    IN  IsPowerOfTwo(maxAlignment + 1) =>
          /\ size >= offset
          /\ size - offset <= maxAlignment
          /\ size % (maxAlignment + 1) = 0
          /\ \A n \in offset..size :
               n % (maxAlignment + 1) = 0 => n = size
          /\ (offset % (maxAlignment + 1) = 0 => size = offset)

\* an offset of 9 was rounded up to 16 for the alignment mask 7
C39_NineRoundedUpToSixteen ==
  \E s \in Sessions : \E k \in ReturnsOf(s, "buffer_size") :
    calls[s][k].vals = <<9, 7>> /\ calls[s][k].res = 16
=============================================================================
